---- MODULE Spec2Model ----
(***************************************************************************)
(* The flashcard system of docs/js/shortcuts.js (the second IIFE of the   *)
(* file): the card store kept in localStorage, the SM-2 scheduler         *)
(* calculateSM2 and the study session kept in currentSession.             *)
(*                                                                         *)
(* Representation.                                                         *)
(*  - A JavaScript object is a TLA+ record (a function over its own keys); *)
(*    a key that is absent from the object is absent from DOMAIN.  The     *)
(*    spread {...a, ...b} and Object.assign are Merge.                     *)
(*  - null is the empty sequence <<>> and a non-null value v is <<v>>.     *)
(*  - Dates are whole minutes since the epoch (the ISO strings the code    *)
(*    stores carry the same instant); 0 stands for a falsy/absent date.    *)
(*  - card.interval is a number of days in the code, with the fractions    *)
(*    step/1440 for learning steps.  The model stores the same quantity    *)
(*    in minutes (days * 1440) so that it stays an integer.                *)
(*  - card.easinessFactor is stored in hundredths (2.5 is 250) and the     *)
(*    arithmetic on it is exact decimal arithmetic.                        *)
(*  - The timestamps card.created and session.startTime, which the code   *)
(*    writes and never reads, are left out of the records.                 *)
(*  - Card ids are positive integers; generateId is assumed to return a    *)
(*    fresh id at every call (the counter nextId).                         *)
(***************************************************************************)
EXTENDS Integers, Sequences, FiniteSets, TLC

VARIABLES
    storage,          \* localStorage[STORAGE_KEY].flashcards : topic -> cards
    settingsItem,     \* localStorage[SETTINGS_KEY] : <<>> or <<settings object>>
    currentSession,   \* <<>> (null) or <<session object>>
    now,              \* the clock, in minutes
    nextId,           \* the next id generateId hands out
    defaultSettings,  \* the object DEFAULT_SETTINGS, as it is in memory
    currentMarkdown,  \* the markdown source of the manager page
    pendingCards      \* globalThis._pendingCards : <<>> or <<card list>>

vars == <<storage, settingsItem, currentSession, now, nextId,
          defaultSettings, currentMarkdown, pendingCards>>

\* the variables of the manager page and of the defaults object
pageVars == <<defaultSettings, currentMarkdown, pendingCards>>

-----------------------------------------------------------------------------
(* Bounds of the model *)

MaxCards == 2       \* cards ever created, and cards held in the store
MaxDays == 1        \* days the clock may advance
MaxReviews == 1     \* reviews of one card in the full specification
MaxLadderReviews == 5  \* reviews of the card in the review-loop specification
MaxSkips == 2       \* largest cursor value skipCard is followed to
MaxScored == 3      \* reviews of the card in the scheduler specification
MaxStored == 3      \* cards of a topic whose cards are deleted
MaxSections == 3    \* sections of a text with repeated headings

(* Program constants *)

MinutesPerDay == 1440
MinEasiness == 130
InitialEasiness == 250
MASTERED == 5
UNKNOWN == 0
DefaultStepMinutes == 10

Topics == {"t1", "t2"}
Qualities == 1 .. 5

DEFAULT_SETTINGS ==
    [ includeCodeExamples |-> TRUE,
      shuffleCards |-> TRUE,
      newCardInterval |-> 1,
      graduatingInterval |-> 6,
      easyInterval |-> 10,
      maxInterval |-> 365,
      learningSteps |-> <<10, 1440>> ]

-----------------------------------------------------------------------------
(* JavaScript object helpers *)

Merge(a, b) == b @@ a

Has(obj, f) == f \in DOMAIN obj

\* obj[f] || dflt for numbers: an absent key and 0 are both falsy
OrElse(obj, f, dflt) == IF Has(obj, f) /\ obj[f] # 0 THEN obj[f] ELSE dflt

Min(a, b) == IF a <= b THEN a ELSE b
Max(a, b) == IF a >= b THEN a ELSE b

-----------------------------------------------------------------------------
(* Settings *)

getSettings ==
    IF settingsItem = <<>> THEN defaultSettings
    ELSE Merge(defaultSettings, settingsItem[1])

-----------------------------------------------------------------------------
(* Card store *)

getFlashcards(topicId) == storage[topicId]

\* IsDue with a card that falls due at this very minute left out
IsDueStrictly(card) ==
    OrElse(card, "nextReviewDate", 0) = 0 \/ card.nextReviewDate < now

\* card.nextReviewDate absent (falsy) counts as due
IsDue(card) == OrElse(card, "nextReviewDate", 0) = 0 \/ card.nextReviewDate <= now

getDueCards(topicId) == SelectSeq(getFlashcards(topicId), IsDue)

\* saveAllFlashcards: setItem either stores data (ok) or throws, as it does
\* when the quota is exceeded; then the item keeps its stored value and the
\* function returns false, which none of its callers reads
saveAllFlashcards(stored, data, ok) == IF ok THEN data ELSE stored

\* lines 736-746 of saveFlashcard: the defaults given to a submitted card
WithDefaults(card, id) ==
    Merge(card,
        [ id |-> OrElse(card, "id", id),
          confidence |-> OrElse(card, "confidence", UNKNOWN),
          reviewCount |-> OrElse(card, "reviewCount", 0),
          correctCount |-> OrElse(card, "correctCount", 0),
          easinessFactor |-> OrElse(card, "easinessFactor", InitialEasiness),
          interval |-> OrElse(card, "interval", 0),
          repetitions |-> OrElse(card, "repetitions", 0),
          nextReviewDate |-> OrElse(card, "nextReviewDate", now),
          isNew |-> IF Has(card, "isNew") THEN card.isNew ELSE TRUE,
          stepIndex |-> OrElse(card, "stepIndex", 0) ])

\* a saveFlashcard that writes a collection with the cards of its topic only
saveFlashcardAlone(data, topicId, card, id) ==
    [t \in Topics |->
        IF t = topicId THEN Append(data[t], WithDefaults(card, id)) ELSE <<>>]

\* the collection saveFlashcard hands to saveAllFlashcards: the card, with
\* its defaults, pushed at the end of the topic's array
saveFlashcard(data, topicId, card, id) ==
    [data EXCEPT ![topicId] = Append(@, WithDefaults(card, id))]

\* what a call of saveFlashcard gives its caller: saveAllFlashcards catches
\* the exception of setItem and returns false, saveFlashcard does not read
\* that and returns the card (with its defaults) whether it was stored or not
saveFlashcardOutcome(card, id, ok) ==
    [threw |-> FALSE, value |-> WithDefaults(card, id)]

\* cards.findIndex(c => c.id === cardId): 0 when there is none
FindIndex(cards, cardId) ==
    IF \E i \in 1 .. Len(cards) : cards[i].id = cardId
    THEN CHOOSE i \in 1 .. Len(cards) :
            /\ cards[i].id = cardId
            /\ \A j \in 1 .. i - 1 : cards[j].id # cardId
    ELSE 0

\* the collection updateFlashcard hands to saveAllFlashcards
updateFlashcard(data, topicId, cardId, updates) ==
    LET index == FindIndex(data[topicId], cardId)
    IN  [data EXCEPT ![topicId][index] = Merge(@, updates)]

\* a deleteFlashcard that removes the first card with the id only
deleteFlashcardFirst(data, topicId, cardId) ==
    LET index == FindIndex(data[topicId], cardId)
        keep(c) == c.id # cardId
    IN  [data EXCEPT ![topicId] =
             IF index = 0 THEN @
             ELSE SelectSeq(SubSeq(@, 1, index), keep)
                  \o SubSeq(@, index + 1, Len(@))]

\* the collection deleteFlashcard hands to saveAllFlashcards
deleteFlashcard(data, topicId, cardId) ==
    LET keep(c) == c.id # cardId
    IN  [data EXCEPT ![topicId] = SelectSeq(@, keep)]

\* String.prototype.toLowerCase on a string kept as a sequence of characters:
\* the lower-case letter of each upper-case letter
LowerCase ==
    [ A |-> "a", B |-> "b", C |-> "c", D |-> "d", E |-> "e", F |-> "f",
      G |-> "g", H |-> "h", I |-> "i", J |-> "j", K |-> "k", L |-> "l",
      M |-> "m", N |-> "n", O |-> "o", P |-> "p", Q |-> "q", R |-> "r",
      S |-> "s", T |-> "t", U |-> "u", V |-> "v", W |-> "w", X |-> "x",
      Y |-> "y", Z |-> "z" ]

LowerChar(ch) == IF ch \in DOMAIN LowerCase THEN LowerCase[ch] ELSE ch

toLowerCase(str) == [i \in 1 .. Len(str) |-> LowerChar(str[i])]

\* the characters the replace of deduplicateCards keeps: /[^a-z0-9]/g removes
\* every other one
LowerAlphanumerics ==
    { "a", "b", "c", "d", "e", "f", "g", "h", "i", "j", "k", "l", "m",
      "n", "o", "p", "q", "r", "s", "t", "u", "v", "w", "x", "y", "z",
      "0", "1", "2", "3", "4", "5", "6", "7", "8", "9" }

\* card.question.toLowerCase().replace(/[^a-z0-9]/g, '')
Normalized(question) ==
    LET kept(ch) == ch \in LowerAlphanumerics
    IN  SelectSeq(toLowerCase(question), kept)

RECURSIVE deduplicateCardsLast(_)
\* a deduplicateCards that keeps the last card of each normalized question
deduplicateCardsLast(cards) ==
    IF cards = <<>> THEN <<>>
    ELSE LET later == Tail(cards)
             card == Head(cards)
         IN  IF \E i \in 1 .. Len(later) :
                    Normalized(later[i].question) = Normalized(card.question)
             THEN deduplicateCardsLast(later)
             ELSE <<card>> \o deduplicateCardsLast(later)

RECURSIVE deduplicateCards(_)
\* the cards whose normalized question no earlier card of the list has (the
\* set seen holds the normalized questions of all the earlier cards)
deduplicateCards(cards) ==
    IF cards = <<>> THEN <<>>
    ELSE LET earlier == SubSeq(cards, 1, Len(cards) - 1)
             card == cards[Len(cards)]
         IN  IF \E i \in 1 .. Len(earlier) :
                    Normalized(earlier[i].question) = Normalized(card.question)
             THEN deduplicateCards(earlier)
             ELSE Append(deduplicateCards(earlier), card)

RECURSIVE SaveCards(_, _, _, _, _)
\* for (const card of cards) saveFlashcard(topicId, card): data is the
\* stored collection, id the next generated id, oks the outcome of each write
SaveCards(data, id, cards, topicId, oks) ==
    IF cards = <<>> THEN [data |-> data, id |-> id]
    ELSE SaveCards(
             saveAllFlashcards(data,
                 saveFlashcard(data, topicId, Head(cards), id), Head(oks)),
             IF OrElse(Head(cards), "id", 0) = 0 THEN id + 1 ELSE id,
             Tail(cards), topicId, Tail(oks))

RECURSIVE ImportCards(_, _, _, _, _, _)
\* the forEach of importDeck: data is the stored collection, id the next
\* generated id, oks the outcome of each card's write.  Returns both.
ImportCards(data, id, cards, existingCards, topicId, oks) ==
    IF cards = <<>> THEN [data |-> data, id |-> id]
    ELSE LET card == Head(cards)
             duplicate ==
                 \E i \in 1 .. Len(existingCards) :
                    toLowerCase(existingCards[i].question) = toLowerCase(card.question)
         IN  IF duplicate
             THEN ImportCards(data, id, Tail(cards), existingCards, topicId, Tail(oks))
             ELSE ImportCards(
                      saveAllFlashcards(data,
                          saveFlashcard(data, topicId,
                              Merge(card, [source |-> "imported"]), id),
                          Head(oks)),
                      IF OrElse(card, "id", 0) = 0 THEN id + 1 ELSE id,
                      Tail(cards), existingCards, topicId, Tail(oks))

\* existingCards.find(c => c.question.toLowerCase() ===
\* card.question.toLowerCase()) from the position i on: "found", "none", or
\* "threw" when a card it compares has no question
RECURSIVE FindDuplicate(_, _, _)
FindDuplicate(existingCards, card, i) ==
    IF i > Len(existingCards) THEN "none"
    ELSE IF ~Has(existingCards[i], "question") \/ ~Has(card, "question") THEN "threw"
    ELSE IF toLowerCase(existingCards[i].question) = toLowerCase(card.question)
    THEN "found"
    ELSE FindDuplicate(existingCards, card, i + 1)

RECURSIVE ImportAnyCards(_, _, _, _, _, _)
\* the forEach of importDeck over cards that can lack a question: it stops
\* at the card whose comparison throws, with the cards before it saved
ImportAnyCards(data, id, cards, existingCards, topicId, oks) ==
    IF cards = <<>> THEN [data |-> data, id |-> id, threw |-> FALSE]
    ELSE LET card == Head(cards)
             duplicate == FindDuplicate(existingCards, card, 1)
         IN  IF duplicate = "threw" THEN [data |-> data, id |-> id, threw |-> TRUE]
             ELSE IF duplicate = "found"
             THEN ImportAnyCards(data, id, Tail(cards), existingCards, topicId, Tail(oks))
             ELSE ImportAnyCards(
                      saveAllFlashcards(data,
                          saveFlashcard(data, topicId,
                              Merge(card, [source |-> "imported"]), id),
                          Head(oks)),
                      IF OrElse(card, "id", 0) = 0 THEN id + 1 ELSE id,
                      Tail(cards), existingCards, topicId, Tail(oks))

\* importDeck of the parsed file jsonData: the collection and the next id it
\* leaves, and the value it returns (false when an exception was caught)
importDeck(data, id, jsonData, topicId, oks) ==
    IF ~Has(jsonData, "cards")
    THEN [data |-> data, id |-> id, returned |-> FALSE]
    ELSE LET done == ImportAnyCards(data, id, jsonData.cards, data[topicId],
                                    topicId, oks)
         IN  [data |-> done.data, id |-> done.id, returned |-> ~done.threw]

-----------------------------------------------------------------------------
(* Scheduler *)

\* Math.round(intervalDays * multiplier), in days, where intervalDays is
\* minutes / 1440 and multiplier is scaled / 1000; halves round up
RoundedDays(minutes, scaled) ==
    LET d == minutes \div MinutesPerDay
        r == minutes % MinutesPerDay
    IN  (d * scaled + 500 + (r * scaled) \div MinutesPerDay) \div 1000

\* 0.1 - (5 - quality) * (0.08 + (5 - quality) * 0.02), in hundredths
EasinessDelta(quality) == 10 - (5 - quality) * (8 + (5 - quality) * 2)

\* lines 788-790: settings.learningSteps[0] || 10
FirstStepMinutes(settings) ==
    IF Len(settings.learningSteps) >= 1 /\ settings.learningSteps[1] # 0
    THEN settings.learningSteps[1]
    ELSE DefaultStepMinutes

\* LapseReview with the position in the ladder kept
LapseReviewKeepsStep(card, settings) ==
    Merge(card,
        [ repetitions |-> 0,
          isNew |-> FALSE,
          interval |-> FirstStepMinutes(settings),
          nextReviewDate |-> now + FirstStepMinutes(settings) ])

\* LapseReview that also lowers the easinessFactor by 0.2
LapseReviewLowersEase(card, settings) ==
    Merge(card,
        [ repetitions |-> 0,
          stepIndex |-> 0,
          isNew |-> FALSE,
          easinessFactor |-> Max(MinEasiness, card.easinessFactor - 20),
          interval |-> FirstStepMinutes(settings),
          nextReviewDate |-> now + FirstStepMinutes(settings) ])

\* the branch quality < 3 of calculateSM2
LapseReview(card, settings) ==
    Merge(card,
        [ repetitions |-> 0,
          stepIndex |-> 0,
          isNew |-> FALSE,
          interval |-> FirstStepMinutes(settings),
          nextReviewDate |-> now + FirstStepMinutes(settings) ])

\* LearningReview that leaves the ladder one step early
LearningReviewGraduatesEarly(card, settings) ==
    LET stepIndex == card.stepIndex + 1
    IN  IF stepIndex + 1 < Len(settings.learningSteps)
        THEN Merge(card,
                [ isNew |-> FALSE,
                  stepIndex |-> stepIndex,
                  interval |-> settings.learningSteps[stepIndex + 1],
                  nextReviewDate |-> now + settings.learningSteps[stepIndex + 1] ])
        ELSE Merge(card,
                [ isNew |-> FALSE,
                  stepIndex |-> stepIndex,
                  repetitions |-> 1,
                  interval |-> settings.graduatingInterval * MinutesPerDay,
                  nextReviewDate |->
                      now + settings.graduatingInterval * MinutesPerDay ])

\* the branch quality >= 3 of a card that is new or has no repetition
\* (learningSteps is indexed from 0 in the code and from 1 here)
LearningReview(card, settings) ==
    LET stepIndex == card.stepIndex + 1
    IN  IF stepIndex < Len(settings.learningSteps)
        THEN Merge(card,
                [ isNew |-> FALSE,
                  stepIndex |-> stepIndex,
                  interval |-> settings.learningSteps[stepIndex + 1],
                  nextReviewDate |-> now + settings.learningSteps[stepIndex + 1] ])
        ELSE Merge(card,
                [ isNew |-> FALSE,
                  stepIndex |-> stepIndex,
                  repetitions |-> 1,
                  interval |-> settings.graduatingInterval * MinutesPerDay,
                  nextReviewDate |->
                      now + settings.graduatingInterval * MinutesPerDay ])

\* the branch quality >= 3 of a card that has repetitions
GraduatedReview(card, quality, settings) ==
    LET repetitions == card.repetitions + 1
        easinessFactor ==
            Max(MinEasiness, card.easinessFactor + EasinessDelta(quality))
        boost == IF quality = 5 THEN 13 ELSE IF quality = 3 THEN 12 ELSE 10
        interval ==
            IF repetitions = 1
            THEN settings.newCardInterval * MinutesPerDay
            ELSE IF repetitions = 2
            THEN settings.graduatingInterval * MinutesPerDay
            ELSE RoundedDays(card.interval, easinessFactor * boost) * MinutesPerDay
        capped == Min(interval, settings.maxInterval * MinutesPerDay)
    IN  Merge(card,
            [ repetitions |-> repetitions,
              easinessFactor |-> easinessFactor,
              interval |-> capped,
              nextReviewDate |-> now + capped ])

\* a calculateSM2 that lengthens the interval while the session has a
\* correct answer
calculateSM2Streak(card, quality) ==
    LET newCard ==
            IF quality < 3 THEN LapseReview(card, getSettings)
            ELSE IF card.isNew \/ card.repetitions = 0
            THEN LearningReview(card, getSettings)
            ELSE GraduatedReview(card, quality, getSettings)
    IN  IF currentSession # <<>> /\ currentSession[1].correct > 0
        THEN [newCard EXCEPT !.interval = @ + MinutesPerDay]
        ELSE newCard

calculateSM2(card, quality) ==
    IF quality < 3 THEN LapseReview(card, getSettings)
    ELSE IF card.isNew \/ card.repetitions = 0 THEN LearningReview(card, getSettings)
    ELSE GraduatedReview(card, quality, getSettings)

-----------------------------------------------------------------------------
(* Study session *)

SortKey(card) ==
    IF OrElse(card, "nextReviewDate", 0) = 0 THEN now ELSE card.nextReviewDate

\* InsertByDate with the card put before the elements of the same date
InsertByDateFirst(sorted, card) ==
    LET place == Cardinality({i \in 1 .. Len(sorted) :
                                 SortKey(sorted[i]) < SortKey(card)})
    IN  SubSeq(sorted, 1, place) \o <<card>> \o SubSeq(sorted, place + 1, Len(sorted))

\* insertion into an ascending list, behind the elements that do not sort
\* after card (they are a prefix of the list)
InsertByDate(sorted, card) ==
    LET place == Cardinality({i \in 1 .. Len(sorted) :
                                 SortKey(sorted[i]) <= SortKey(card)})
    IN  SubSeq(sorted, 1, place) \o <<card>> \o SubSeq(sorted, place + 1, Len(sorted))

RECURSIVE SortByDate(_)
\* sessionCards.sort((a, b) => dateA - dateB): a stable sort, ascending
SortByDate(cards) ==
    IF cards = <<>> THEN <<>>
    ELSE InsertByDate(SortByDate(SubSeq(cards, 1, Len(cards) - 1)), cards[Len(cards)])

IndexPermutations(n) ==
    {p \in [1 .. n -> 1 .. n] : \A i, j \in 1 .. n : p[i] = p[j] => i = j}

\* shuffleArray: the Fisher-Yates shuffle can return every permutation
shuffleArray(array) ==
    {[i \in 1 .. Len(array) |-> array[p[i]]] : p \in IndexPermutations(Len(array))}

HasSession == currentSession # <<>>

getCurrentCard ==
    IF ~HasSession \/ currentSession[1].currentIndex >= Len(currentSession[1].cards)
    THEN <<>>
    ELSE <<currentSession[1].cards[currentSession[1].currentIndex + 1]>>

getSessionStats ==
    IF ~HasSession THEN <<>>
    ELSE LET session == currentSession[1]
         IN  <<[ total |-> Len(session.cards),
                 current |-> session.currentIndex + 1,
                 correct |-> session.correct,
                 review |-> session.review,
                 remaining |-> Len(session.cards) - session.currentIndex,
                 \* Math.round((currentIndex / cards.length) * 100)
                 percentComplete |->
                     (200 * session.currentIndex + Len(session.cards))
                         \div (2 * Len(session.cards)) ]>>

\* what endSession returns: the statistics of the session, or null
endSessionOutcome == IF HasSession THEN getSessionStats ELSE <<>>

\* the card recordAnswer leaves in the session and hands to updateFlashcard
ScoredCard(card, quality) ==
    LET \* card.reviewCount = (card.reviewCount || 0) + 1; card.lastReviewed = now
        reviewed == Merge(card,
                        [ reviewCount |-> OrElse(card, "reviewCount", 0) + 1,
                          lastReviewed |-> now ])
        sm2 == calculateSM2(reviewed, quality)
        \* card.correctCount = (card.correctCount || 0) + 1, on a pass
        counted == IF quality >= 3
                   THEN Merge(reviewed,
                            [correctCount |-> OrElse(reviewed, "correctCount", 0) + 1])
                   ELSE reviewed
        updatedCard ==
            Merge(sm2,
                [confidence |->
                    IF quality >= 3
                    THEN Min(OrElse(reviewed, "confidence", 0) + 1, MASTERED)
                    ELSE Max(OrElse(reviewed, "confidence", 0) - 1, UNKNOWN)])
    IN  \* Object.assign(card, updatedCard)
        Merge(counted, updatedCard)

\* AdvanceSession with the cursor left in place on a lapse
AdvanceSessionLapseStays(session, card, quality) ==
    [session EXCEPT
        !.cards[session.currentIndex + 1] = card,
        !.correct = IF quality >= 3 THEN @ + 1 ELSE @,
        !.review = IF quality >= 3 THEN @ ELSE @ + 1,
        !.currentIndex = IF quality >= 3 THEN @ + 1 ELSE @,
        !.isFlipped = FALSE]

\* the session recordAnswer leaves: the scored card in place, the counters
\* and the cursor advanced, the answer hidden
AdvanceSession(session, card, quality) ==
    [session EXCEPT
        !.cards[session.currentIndex + 1] = card,
        !.correct = IF quality >= 3 THEN @ + 1 ELSE @,
        !.review = IF quality >= 3 THEN @ ELSE @ + 1,
        !.currentIndex = @ + 1,
        !.isFlipped = FALSE]

-----------------------------------------------------------------------------
(* Extraction: strings are sequences of characters.  A markdown text is   *)
(* kept as the sequence of its level-2 and level-3 heading sections, each *)
(* with a heading line and a content that passes the length checks of     *)
(* extractFromHeadings; it has no bold definition, list or code block.    *)

\* the number of spaces str starts with, and ends with
LeadingSpaces(str) ==
    IF \A i \in 1 .. Len(str) : str[i] = " " THEN Len(str)
    ELSE (CHOOSE i \in 1 .. Len(str) :
              str[i] # " " /\ \A j \in 1 .. i - 1 : str[j] = " ") - 1

TrailingSpaces(str) ==
    IF \A i \in 1 .. Len(str) : str[i] = " " THEN Len(str)
    ELSE Len(str) - (CHOOSE i \in 1 .. Len(str) :
                         str[i] # " " /\ \A j \in i + 1 .. Len(str) : str[j] = " ")

\* String.prototype.trim
trim(str) ==
    IF LeadingSpaces(str) = Len(str) THEN <<>>
    ELSE SubSeq(str, LeadingSpaces(str) + 1, Len(str) - TrailingSpaces(str))

startsWith(str, s) == Len(s) <= Len(str) /\ SubSeq(str, 1, Len(s)) = s

endsWith(str, s) ==
    Len(s) <= Len(str) /\ SubSeq(str, Len(str) - Len(s) + 1, Len(str)) = s

\* the positions of str where s occurs
Occurrences(str, s) ==
    {i \in 1 .. Len(str) - Len(s) + 1 : SubSeq(str, i, i + Len(s) - 1) = s}

includes(str, s) == Occurrences(str, s) # {}

\* str.replace(s, by) with a string s: the first occurrence is replaced
replace(str, s, by) ==
    IF ~includes(str, s) THEN str
    ELSE LET i == CHOOSE i \in Occurrences(str, s) :
                      \A j \in Occurrences(str, s) : i <= j
         IN  SubSeq(str, 1, i - 1) \o by \o SubSeq(str, i + Len(s), Len(str))

QUESTION_PATTERNS ==
    << [ triggers |->
             << <<"p", "r", "a", "c", "t", "i", "c", "a", "l">>,
                <<"s", "c", "e", "n", "a", "r", "i", "o", "s">>,
                <<"u", "s", "e", " ", "c", "a", "s", "e", "s">>,
                <<"a", "p", "p", "l", "i", "c", "a", "t", "i", "o", "n", "s">>,
                <<"w", "h", "e", "n", " ", "t", "o", " ", "u", "s", "e">>,
                <<"s", "i", "t", "u", "a", "t", "i", "o", "n", "s">> >>,
         templates |->
             << <<"W", "h", "e", "n", " ", "s", "h", "o", "u", "l", "d", " ",
                  "y", "o", "u", " ", "u", "s", "e", " ", "{", "t", "o", "p",
                  "i", "c", "}", "?">>,
                <<"W", "h", "a", "t", " ", "a", "r", "e", " ", "p", "r", "a",
                  "c", "t", "i", "c", "a", "l", " ", "s", "c", "e", "n", "a",
                  "r", "i", "o", "s", " ", "f", "o", "r", " ", "{", "t", "o",
                  "p", "i", "c", "}", "?">>,
                <<"I", "n", " ", "w", "h", "a", "t", " ", "s", "i", "t", "u",
                  "a", "t", "i", "o", "n", "s", " ", "w", "o", "u", "l", "d",
                  " ", "y", "o", "u", " ", "u", "s", "e", " ", "{", "t", "o",
                  "p", "i", "c", "}", "?">> >>,
         priority |-> 9 ],
       [ triggers |->
             << <<"i", "m", "p", "o", "r", "t", "a", "n", "c", "e">>,
                <<"b", "e", "n", "e", "f", "i", "t", "s">>,
                <<"a", "d", "v", "a", "n", "t", "a", "g", "e", "s">>,
                <<"w", "h", "y", " ", "u", "s", "e">>,
                <<"w", "h", "y", " ", "i", "m", "p", "o", "r", "t", "a", "n",
                  "t">>,
                <<"s", "i", "g", "n", "i", "f", "i", "c", "a", "n", "c", "e">> >>,
         templates |->
             << <<"W", "h", "y", " ", "i", "s", " ", "{", "t", "o", "p", "i",
                  "c", "}", " ", "i", "m", "p", "o", "r", "t", "a", "n", "t",
                  "?">>,
                <<"W", "h", "a", "t", " ", "a", "r", "e", " ", "t", "h", "e",
                  " ", "b", "e", "n", "e", "f", "i", "t", "s", " ", "o", "f",
                  " ", "{", "t", "o", "p", "i", "c", "}", "?">>,
                <<"W", "h", "y", " ", "s", "h", "o", "u", "l", "d", " ", "y",
                  "o", "u", " ", "u", "s", "e", " ", "{", "t", "o", "p", "i",
                  "c", "}", "?">>,
                <<"W", "h", "a", "t", " ", "i", "s", " ", "t", "h", "e", " ",
                  "s", "i", "g", "n", "i", "f", "i", "c", "a", "n", "c", "e",
                  " ", "o", "f", " ", "{", "t", "o", "p", "i", "c", "}", "?">> >>,
         priority |-> 8 ],
       [ triggers |->
             << <<"i", "s", "s", "u", "e", "s">>,
                <<"p", "i", "t", "f", "a", "l", "l", "s">>,
                <<"c", "o", "m", "m", "o", "n", " ", "m", "i", "s", "t", "a",
                  "k", "e", "s">>,
                <<"p", "r", "o", "b", "l", "e", "m", "s">>,
                <<"g", "o", "t", "c", "h", "a", "s">>,
                <<"a", "v", "o", "i", "d">>,
                <<"e", "r", "r", "o", "r", "s">>,
                <<"b", "u", "g", "s">> >>,
         templates |->
             << <<"W", "h", "a", "t", " ", "a", "r", "e", " ", "c", "o", "m",
                  "m", "o", "n", " ", "p", "i", "t", "f", "a", "l", "l", "s",
                  " ", "w", "i", "t", "h", " ", "{", "t", "o", "p", "i", "c",
                  "}", "?">>,
                <<"W", "h", "a", "t", " ", "i", "s", "s", "u", "e", "s", " ",
                  "s", "h", "o", "u", "l", "d", " ", "y", "o", "u", " ", "a",
                  "v", "o", "i", "d", " ", "w", "h", "e", "n", " ", "u", "s",
                  "i", "n", "g", " ", "{", "t", "o", "p", "i", "c", "}", "?">>,
                <<"W", "h", "a", "t", " ", "m", "i", "s", "t", "a", "k", "e",
                  "s", " ", "a", "r", "e", " ", "c", "o", "m", "m", "o", "n",
                  "l", "y", " ", "m", "a", "d", "e", " ", "w", "i", "t", "h",
                  " ", "{", "t", "o", "p", "i", "c", "}", "?">>,
                <<"W", "h", "a", "t", " ", "p", "r", "o", "b", "l", "e", "m",
                  "s", " ", "c", "a", "n", " ", "o", "c", "c", "u", "r", " ",
                  "w", "i", "t", "h", " ", "{", "t", "o", "p", "i", "c", "}",
                  "?">> >>,
         priority |-> 8 ],
       [ triggers |->
             << <<"h", "o", "w", " ", "i", "t", " ", "w", "o", "r", "k", "s">>,
                <<"m", "e", "c", "h", "a", "n", "i", "s", "m">>,
                <<"b", "e", "h", "i", "n", "d", " ", "t", "h", "e", " ", "s",
                  "c", "e", "n", "e", "s">>,
                <<"i", "n", "t", "e", "r", "n", "a", "l">>,
                <<"u", "n", "d", "e", "r", " ", "t", "h", "e", " ", "h", "o",
                  "o", "d">>,
                <<"h", "o", "w", " ", "d", "o", "e", "s">> >>,
         templates |->
             << <<"H", "o", "w", " ", "d", "o", "e", "s", " ", "{", "t", "o",
                  "p", "i", "c", "}", " ", "w", "o", "r", "k", "?">>,
                <<"E", "x", "p", "l", "a", "i", "n", " ", "h", "o", "w", " ",
                  "{", "t", "o", "p", "i", "c", "}", " ", "w", "o", "r", "k",
                  "s">>,
                <<"W", "h", "a", "t", " ", "h", "a", "p", "p", "e", "n", "s",
                  " ", "i", "n", "t", "e", "r", "n", "a", "l", "l", "y", " ",
                  "w", "i", "t", "h", " ", "{", "t", "o", "p", "i", "c", "}",
                  "?">>,
                <<"D", "e", "s", "c", "r", "i", "b", "e", " ", "t", "h", "e",
                  " ", "m", "e", "c", "h", "a", "n", "i", "s", "m", " ", "o",
                  "f", " ", "{", "t", "o", "p", "i", "c", "}">> >>,
         priority |-> 7 ],
       [ triggers |->
             << <<"c", "r", "e", "a", "t", "i", "n", "g">>,
                <<"w", "r", "i", "t", "i", "n", "g">>,
                <<"i", "m", "p", "l", "e", "m", "e", "n", "t", "i", "n", "g">>,
                <<"b", "u", "i", "l", "d", "i", "n", "g">>,
                <<"m", "a", "k", "i", "n", "g">>,
                <<"d", "e", "v", "e", "l", "o", "p", "i", "n", "g">> >>,
         templates |->
             << <<"H", "o", "w", " ", "d", "o", " ", "y", "o", "u", " ", "c",
                  "r", "e", "a", "t", "e", " ", "{", "t", "o", "p", "i", "c",
                  "}", "?">>,
                <<"W", "h", "a", "t", " ", "a", "r", "e", " ", "t", "h", "e",
                  " ", "s", "t", "e", "p", "s", " ", "t", "o", " ", "i", "m",
                  "p", "l", "e", "m", "e", "n", "t", " ", "{", "t", "o", "p",
                  "i", "c", "}", "?">>,
                <<"H", "o", "w", " ", "d", "o", " ", "y", "o", "u", " ", "w",
                  "r", "i", "t", "e", " ", "{", "t", "o", "p", "i", "c", "}",
                  "?">>,
                <<"H", "o", "w", " ", "d", "o", " ", "y", "o", "u", " ", "b",
                  "u", "i", "l", "d", " ", "{", "t", "o", "p", "i", "c", "}",
                  "?">> >>,
         priority |-> 7 ],
       [ triggers |->
             << <<"s", "t", "e", "p", "s">>,
                <<"p", "r", "o", "c", "e", "s", "s">>,
                <<"p", "r", "o", "c", "e", "d", "u", "r", "e">>,
                <<"w", "o", "r", "k", "f", "l", "o", "w">> >>,
         templates |->
             << <<"W", "h", "a", "t", " ", "a", "r", "e", " ", "t", "h", "e",
                  " ", "s", "t", "e", "p", "s", " ", "t", "o", " ", "{", "t",
                  "o", "p", "i", "c", "}", "?">>,
                <<"D", "e", "s", "c", "r", "i", "b", "e", " ", "t", "h", "e",
                  " ", "p", "r", "o", "c", "e", "s", "s", " ", "o", "f", " ",
                  "{", "t", "o", "p", "i", "c", "}">>,
                <<"W", "h", "a", "t", " ", "i", "s", " ", "t", "h", "e", " ",
                  "p", "r", "o", "c", "e", "d", "u", "r", "e", " ", "f", "o",
                  "r", " ", "{", "t", "o", "p", "i", "c", "}", "?">> >>,
         priority |-> 7 ],
       [ triggers |->
             << <<"b", "e", "s", "t", " ", "p", "r", "a", "c", "t", "i", "c",
                  "e", "s">>,
                <<"g", "u", "i", "d", "e", "l", "i", "n", "e", "s">>,
                <<"r", "e", "c", "o", "m", "m", "e", "n", "d", "a", "t", "i",
                  "o", "n", "s">>,
                <<"t", "i", "p", "s">> >>,
         templates |->
             << <<"W", "h", "a", "t", " ", "a", "r", "e", " ", "t", "h", "e",
                  " ", "b", "e", "s", "t", " ", "p", "r", "a", "c", "t", "i",
                  "c", "e", "s", " ", "f", "o", "r", " ", "{", "t", "o", "p",
                  "i", "c", "}", "?">>,
                <<"W", "h", "a", "t", " ", "a", "r", "e", " ", "r", "e", "c",
                  "o", "m", "m", "e", "n", "d", "e", "d", " ", "g", "u", "i",
                  "d", "e", "l", "i", "n", "e", "s", " ", "f", "o", "r", " ",
                  "{", "t", "o", "p", "i", "c", "}", "?">>,
                <<"W", "h", "a", "t", " ", "t", "i", "p", "s", " ", "s", "h",
                  "o", "u", "l", "d", " ", "y", "o", "u", " ", "f", "o", "l",
                  "l", "o", "w", " ", "f", "o", "r", " ", "{", "t", "o", "p",
                  "i", "c", "}", "?">> >>,
         priority |-> 6 ],
       [ triggers |->
             << <<"d", "e", "b", "u", "g", "g", "i", "n", "g">>,
                <<"t", "r", "o", "u", "b", "l", "e", "s", "h", "o", "o", "t",
                  "i", "n", "g">>,
                <<"f", "i", "x", "i", "n", "g">>,
                <<"s", "o", "l", "v", "i", "n", "g">> >>,
         templates |->
             << <<"H", "o", "w", " ", "d", "o", " ", "y", "o", "u", " ", "d",
                  "e", "b", "u", "g", " ", "{", "t", "o", "p", "i", "c", "}",
                  "?">>,
                <<"W", "h", "a", "t", " ", "a", "r", "e", " ", "c", "o", "m",
                  "m", "o", "n", " ", "w", "a", "y", "s", " ", "t", "o", " ",
                  "t", "r", "o", "u", "b", "l", "e", "s", "h", "o", "o", "t",
                  " ", "{", "t", "o", "p", "i", "c", "}", "?">>,
                <<"H", "o", "w", " ", "d", "o", " ", "y", "o", "u", " ", "f",
                  "i", "x", " ", "i", "s", "s", "u", "e", "s", " ", "w", "i",
                  "t", "h", " ", "{", "t", "o", "p", "i", "c", "}", "?">> >>,
         priority |-> 6 ] >>

\* the verbPrefixes of cleanHeadingText, in their order: the words of each
\* expression, which \s+ separates and follows
VerbPrefixes ==
    << << <<"u", "n", "d", "e", "r", "s", "t", "a", "n", "d", "i", "n", "g">> >>,
       << <<"w", "o", "r", "k", "i", "n", "g">>,
          <<"w", "i", "t", "h">> >>,
       << <<"i", "n", "t", "r", "o", "d", "u", "c", "t", "i", "o", "n">>,
          <<"t", "o">> >>,
       << <<"i", "n", "t", "r", "o">>,
          <<"t", "o">> >>,
       << <<"o", "v", "e", "r", "v", "i", "e", "w">>,
          <<"o", "f">> >>,
       << <<"g", "e", "t", "t", "i", "n", "g">>,
          <<"s", "t", "a", "r", "t", "e", "d">>,
          <<"w", "i", "t", "h">> >>,
       << <<"l", "e", "a", "r", "n", "i", "n", "g">> >>,
       << <<"u", "s", "i", "n", "g">> >>,
       << <<"i", "m", "p", "l", "e", "m", "e", "n", "t", "i", "n", "g">> >>,
       << <<"c", "r", "e", "a", "t", "i", "n", "g">> >>,
       << <<"m", "a", "n", "a", "g", "i", "n", "g">> >>,
       << <<"e", "x", "p", "l", "o", "r", "i", "n", "g">> >>,
       << <<"a", "b", "o", "u", "t">> >>,
       << <<"t", "h", "e">> >> >>

\* the first position from pos on that holds no space
SkipSpaces(str, pos) ==
    IF \A i \in pos .. Len(str) : str[i] = " " THEN Len(str) + 1
    ELSE CHOOSE i \in pos .. Len(str) :
             str[i] # " " /\ \A j \in pos .. i - 1 : str[j] = " "

RECURSIVE MatchWords(_, _, _)
\* the position after the match, from pos, of the words each followed by
\* \s+, letter case ignored; 0 when they do not match
MatchWords(str, pos, words) ==
    IF words = <<>> THEN pos
    ELSE LET end == pos + Len(Head(words)) - 1
         IN  IF /\ end + 1 <= Len(str)
                /\ toLowerCase(SubSeq(str, pos, end)) = Head(words)
                /\ str[end + 1] = " "
             THEN MatchWords(str, SkipSpaces(str, end + 1), Tail(words))
             ELSE 0

RECURSIVE RemovePrefixes(_, _)
\* for (const prefix of verbPrefixes) cleaned = cleaned.replace(prefix, '')
RemovePrefixes(cleaned, prefixes) ==
    IF prefixes = <<>> THEN cleaned
    ELSE LET after == MatchWords(cleaned, 1, Head(prefixes))
         IN  RemovePrefixes(
                 IF after = 0 THEN cleaned ELSE SubSeq(cleaned, after, Len(cleaned)),
                 Tail(prefixes))

cleanHeadingText(heading) == trim(RemovePrefixes(trim(heading), VerbPrefixes))

\* \w of a regular expression
IsWordChar(ch) == LowerChar(ch) \in LowerAlphanumerics \/ ch = "_"

\* \b holds between the positions i - 1 and i of str
WordBoundary(str, i) ==
    LET word(k) == k \in 1 .. Len(str) /\ IsWordChar(str[k])
    IN  word(i - 1) # word(i)

\* s, in any letter case, is at position i of str
LowerAt(str, i, s) ==
    i + Len(s) - 1 <= Len(str) /\ toLowerCase(SubSeq(str, i, i + Len(s) - 1)) = s

\* the position after the match of /\bvs\.?\b|\bversus\b/i that starts at
\* position i of str, 0 when none starts there
VersusEnd(str, i) ==
    IF ~WordBoundary(str, i) THEN 0
    ELSE IF /\ LowerAt(str, i, <<"v", "s", ".">>)
            /\ WordBoundary(str, i + 3) THEN i + 3
    ELSE IF /\ LowerAt(str, i, <<"v", "s">>)
            /\ WordBoundary(str, i + 2) THEN i + 2
    ELSE IF /\ LowerAt(str, i, <<"v", "e", "r", "s", "u", "s">>)
            /\ WordBoundary(str, i + 6) THEN i + 6
    ELSE 0

RECURSIVE splitVersus(_)
\* str.split(/\bvs\.?\b|\bversus\b/i)
splitVersus(str) ==
    LET starts == {i \in 1 .. Len(str) : VersusEnd(str, i) # 0}
    IN  IF starts = {} THEN <<str>>
        ELSE LET i == CHOOSE i \in starts : \A j \in starts : i <= j
             IN  <<SubSeq(str, 1, i - 1)>>
                 \o splitVersus(SubSeq(str, VersusEnd(str, i), Len(str)))

\* the last of the words of text.trim().split(/\s+/)
LastWord(text) ==
    LET trimmed == trim(text)
        spaces == {i \in 1 .. Len(trimmed) : trimmed[i] = " "}
    IN  IF spaces = {} THEN trimmed
        ELSE SubSeq(trimmed,
                    (CHOOSE i \in spaces : \A j \in spaces : j <= i) + 1,
                    Len(trimmed))

isPlural(text) ==
    LET word == toLowerCase(LastWord(text))
    IN  /\ word # <<>>
        /\ endsWith(word, <<"s">>)
        /\ ~endsWith(word, <<"s", "s">>)
        /\ ~endsWith(word, <<"u", "s">>)
        /\ ~endsWith(word, <<"i", "s">>)

\* [...QUESTION_PATTERNS].sort((a, b) => b.priority - a.priority): the sort
\* keeps the order of the patterns of one priority
sortedPatterns ==
    LET RECURSIVE From(_)
        From(priority) ==
            IF priority < 0 THEN <<>>
            ELSE LET has(pattern) == pattern.priority = priority
                 IN  SelectSeq(QUESTION_PATTERNS, has) \o From(priority - 1)
    IN  From(9)

\* the words of /^(how|what|why|when|where|which)/i
QuestionWords ==
    { <<"h", "o", "w">>,
      <<"w", "h", "a", "t">>,
      <<"w", "h", "y">>,
      <<"w", "h", "e", "n">>,
      <<"w", "h", "e", "r", "e">>,
      <<"w", "h", "i", "c", "h">> }

\* the questions generateSmartQuestion can return for a heading: one for
\* each value Math.random can give where a template is picked
generateSmartQuestion(headingText) ==
    LET cleanedHeading == cleanHeadingText(headingText)
        lowerHeading == toLowerCase(headingText)
        parts == splitVersus(cleanedHeading)
        first == toLowerCase(trim(parts[1]))
        second == toLowerCase(trim(parts[2]))
        triggered(pattern) ==
            \E t \in 1 .. Len(pattern.triggers) :
                includes(lowerHeading, pattern.triggers[t])
        matching == {p \in 1 .. Len(sortedPatterns) : triggered(sortedPatterns[p])}
        pattern == sortedPatterns[CHOOSE p \in matching : \A o \in matching : p <= o]
    IN  IF \E w \in QuestionWords : startsWith(lowerHeading, w)
        THEN { IF endsWith(headingText, <<"?">>) THEN headingText
               ELSE headingText \o <<"?">> }
        ELSE IF Len(parts) > 1
        THEN { <<"W", "h", "a", "t", " ", "i", "s", " ", "t", "h", "e", " ",
                 "d", "i", "f", "f", "e", "r", "e", "n", "c", "e", " ", "b",
                 "e", "t", "w", "e", "e", "n", " ">>
                   \o first \o <<" ", "a", "n", "d", " ">> \o second \o <<"?">>,
               <<"H", "o", "w", " ", "d", "o", "e", "s", " ">> \o first
                   \o <<" ", "d", "i", "f", "f", "e", "r", " ", "f", "r", "o",
                        "m", " ">>
                   \o second \o <<"?">>,
               <<"W", "h", "e", "n", " ", "s", "h", "o", "u", "l", "d", " ",
                 "y", "o", "u", " ", "c", "h", "o", "o", "s", "e", " ">>
                   \o first \o <<" ", "o", "v", "e", "r", " ">> \o second \o <<"?">> }
        ELSE IF matching # {}
        THEN { replace(pattern.templates[k],
                       <<"{", "t", "o", "p", "i", "c", "}">>,
                       toLowerCase(cleanedHeading)) :
                 k \in 1 .. Len(pattern.templates) }
        ELSE { IF isPlural(cleanedHeading)
               THEN <<"W", "h", "a", "t", " ", "a", "r", "e", " ">>
                        \o toLowerCase(cleanedHeading) \o <<"?">>
               ELSE <<"W", "h", "a", "t", " ", "i", "s", " ">>
                        \o toLowerCase(cleanedHeading) \o <<"?">> }

\* headings extractFromHeadings passes over: the heading holds one of these
SkippedHeadings ==
    { <<"t", "a", "b", "l", "e", " ", "o", "f", " ", "c", "o", "n", "t", "e",
        "n", "t", "s">>,
      <<"s", "u", "m", "m", "a", "r", "y">>,
      <<"o", "v", "e", "r", "v", "i", "e", "w">>,
      <<"n", "a", "v", "i", "g", "a", "t", "i", "o", "n">>,
      <<"r", "e", "s", "o", "u", "r", "c", "e", "s">>,
      <<"r", "e", "f", "e", "r", "e", "n", "c", "e", "s">>,
      <<"s", "e", "e", " ", "a", "l", "s", "o">> }

RECURSIVE extractFromHeadings(_)
\* the card lists extractFromHeadings can return for the sections: a card
\* for each heading of level 2 or 3 (a section of level 4 stands before the
\* sections of level 2 and 3 in the texts of the model, so that its lines are
\* the content of no heading)
extractFromHeadings(markdown) ==
    IF markdown = <<>> THEN {<<>>}
    ELSE LET section == Head(markdown)
             headingText == trim(section.heading)
             rest == extractFromHeadings(Tail(markdown))
         IN  IF \/ section.level \notin 2 .. 3
                \/ \E w \in SkippedHeadings : includes(toLowerCase(headingText), w)
             THEN rest
             ELSE { <<[question |-> question, answer |-> section.content,
                       source |-> "auto", type |-> "heading",
                       level |-> section.level]>> \o cards :
                      question \in generateSmartQuestion(headingText),
                      cards \in rest }

\* the texts the first two badPatterns of isValidCard match, letter case
\* ignored
BadTexts ==
    { <<"t", "a", "b", "l", "e", " ", "o", "f", " ", "c", "o", "n", "t", "e",
        "n", "t", "s">>,
      <<"t", "o", "c">>,
      <<"s", "u", "m", "m", "a", "r", "y">>,
      <<"o", "v", "e", "r", "v", "i", "e", "w">>,
      <<"n", "a", "v", "i", "g", "a", "t", "i", "o", "n">>,
      <<"r", "e", "s", "o", "u", "r", "c", "e", "s">>,
      <<"r", "e", "f", "e", "r", "e", "n", "c", "e", "s">>,
      <<"p", "r", "e", "v">>,
      <<"n", "e", "x", "t">>,
      <<"h", "o", "m", "e">>,
      <<"b", "a", "c", "k", " ", "t", "o", " ", "t", "o", "p">> }

\* the grave accent, a character that a string of the model cannot hold
GraveAccent == "grave"

\* the mark that opens and closes a fenced block: three grave accents
CodeFence == <<GraveAccent, GraveAccent, GraveAccent>>

\* badPatterns.some(p => p.test(text)): one of the texts of the first two
\* patterns in any letter case, a text that starts with a code fence, one to
\* six heading marks alone, or a list mark alone
MatchesBadPattern(text) ==
    \/ toLowerCase(text) \in BadTexts
    \/ startsWith(text, CodeFence)
    \/ Len(text) \in 1 .. 6 /\ \A i \in 1 .. Len(text) : text[i] = "#"
    \/ text \in { <<"-">>, <<"*">>, <<"+">> }

\* the question is between 5 and 500 characters long, the answer between 20
\* and 1500, and neither matches a bad pattern.  The answer of a heading
\* card is a paragraph of the text kept whole: it has a valid length and
\* matches no bad pattern; the answer of a code card is kept by character.
isValidCard(card) ==
    LET question == trim(card.question)
    IN  /\ Len(question) >= 5
        /\ Len(question) <= 500
        /\ ~MatchesBadPattern(question)
        /\ card.type = "code" =>
              LET answer == trim(card.answer)
              IN  /\ Len(answer) >= 20
                  /\ Len(answer) <= 1500
                  /\ ~MatchesBadPattern(answer)

\* the words of /simple|basic|example|sample/i
ExampleWords ==
    { <<"s", "i", "m", "p", "l", "e">>, <<"b", "a", "s", "i", "c">>,
      <<"e", "x", "a", "m", "p", "l", "e">>, <<"s", "a", "m", "p", "l", "e">> }

\* the words of /wrong|incorrect|pitfall|mistake|avoid|bad|anti-pattern/i
PitfallWords ==
    { <<"w", "r", "o", "n", "g">>,
      <<"i", "n", "c", "o", "r", "r", "e", "c", "t">>,
      <<"p", "i", "t", "f", "a", "l", "l">>,
      <<"m", "i", "s", "t", "a", "k", "e">>,
      <<"a", "v", "o", "i", "d">>,
      <<"b", "a", "d">>,
      <<"a", "n", "t", "i", "-", "p", "a", "t", "t", "e", "r", "n">> }

\* the words of /example|demonstrates|shows/i
DemonstrationWords ==
    { <<"e", "x", "a", "m", "p", "l", "e">>,
      <<"d", "e", "m", "o", "n", "s", "t", "r", "a", "t", "e", "s">>,
      <<"s", "h", "o", "w", "s">> }

\* the words of
\* /\b(create|use|implement|define|declare|set|get|call|invoke|run|execute)\b/i
CodeVerbs ==
    { <<"c", "r", "e", "a", "t", "e">>,
      <<"u", "s", "e">>,
      <<"i", "m", "p", "l", "e", "m", "e", "n", "t">>,
      <<"d", "e", "f", "i", "n", "e">>,
      <<"d", "e", "c", "l", "a", "r", "e">>,
      <<"s", "e", "t">>,
      <<"g", "e", "t">>,
      <<"c", "a", "l", "l">>,
      <<"i", "n", "v", "o", "k", "e">>,
      <<"r", "u", "n">>,
      <<"e", "x", "e", "c", "u", "t", "e">> }

\* str matches the expression of the words, letter case ignored
MatchesAny(str, words) == \E w \in words : includes(toLowerCase(str), w)

\* str.replace with the expression of the words and the empty text: the leftmost of the words is taken out
RemoveFirstOf(str, words) ==
    LET starts == {i \in 1 .. Len(str) : \E w \in words : LowerAt(str, i, w)}
    IN  IF starts = {} THEN str
        ELSE LET i == CHOOSE i \in starts : \A j \in starts : i <= j
                 w == CHOOSE w \in words : LowerAt(str, i, w)
             IN  SubSeq(str, 1, i - 1) \o SubSeq(str, i + Len(w), Len(str))

\* the group of context.match(/(?:to|for)\s+([^.:,]+)/i) for a match that
\* starts at position i: a list with the captured text, empty when none
\* starts there
ToMatchAt(context, i) ==
    LET after == IF LowerAt(context, i, <<"t", "o">>) THEN i + 2
                 ELSE IF LowerAt(context, i, <<"f", "o", "r">>) THEN i + 3
                 ELSE 0
        from == SkipSpaces(context, after)
        stops == {k \in from .. Len(context) : context[k] \in {".", ":", ","}}
        to == IF stops = {} THEN Len(context)
              ELSE (CHOOSE k \in stops : \A o \in stops : k <= o) - 1
    IN  IF after = 0 \/ from = after THEN <<>>
        ELSE IF to >= from THEN <<SubSeq(context, from, to)>>
        \* \s+ gives a space back to the group
        ELSE IF from - after >= 2 THEN << <<" ">> >>
        ELSE <<>>

\* context.match(/(?:to|for)\s+([^.:,]+)/i): the group of the leftmost match
toMatch(context) ==
    LET starts == {i \in 1 .. Len(context) : ToMatchAt(context, i) # <<>>}
    IN  IF starts = {} THEN <<>>
        ELSE ToMatchAt(context, CHOOSE i \in starts : \A j \in starts : i <= j)

\* the verb, in lower case, of the leftmost match of the verbs as whole
\* words in context: a list, empty without a match
verbMatch(context) ==
    LET at(i, verb) == /\ WordBoundary(context, i)
                       /\ LowerAt(context, i, verb)
                       /\ WordBoundary(context, i + Len(verb))
        starts == {i \in 1 .. Len(context) : \E verb \in CodeVerbs : at(i, verb)}
    IN  IF starts = {} THEN <<>>
        ELSE LET i == CHOOSE i \in starts : \A j \in starts : i <= j
             IN  <<CHOOSE verb \in CodeVerbs : at(i, verb)>>

\* the question extractCodeExamples gives a block under the heading, with
\* the context line found above it (each empty when there is none)
CodeQuestion(heading, context) ==
    LET implement ==
            <<"H", "o", "w", " ", "d", "o", " ", "y", "o", "u", " ", "i", "m",
              "p", "l", "e", "m", "e", "n", "t", " ">>
                \o toLowerCase(heading) \o <<"?">>
        showExample ==
            <<"S", "h", "o", "w", " ", "a", "n", " ", "e", "x", "a", "m", "p",
              "l", "e", " ", "o", "f", " ">> \o toLowerCase(heading)
    IN  IF heading # <<>> /\ MatchesAny(heading, ExampleWords)
        THEN IF MatchesAny(heading, { <<"s", "i", "m", "p", "l", "e">>,
                                      <<"b", "a", "s", "i", "c">> })
             THEN <<"W", "h", "a", "t", " ", "i", "s", " ", "a", " ", "s",
                    "i", "m", "p", "l", "e", " ", "e", "x", "a", "m", "p",
                    "l", "e", " ", "o", "f", " ">>
                      \o toLowerCase(trim(RemoveFirstOf(heading,
                             { <<"s", "i", "m", "p", "l", "e">>,
                               <<"b", "a", "s", "i", "c">>,
                               <<"e", "x", "a", "m", "p", "l", "e">> })))
                      \o <<"?">>
             ELSE showExample
        ELSE IF heading # <<>> /\ MatchesAny(heading, PitfallWords)
        THEN <<"W", "h", "a", "t", " ", "p", "r", "o", "b", "l", "e", "m",
               " ", "d", "o", "e", "s", " ", "t", "h", "i", "s", " ", "c",
               "o", "d", "e", " ", "d", "e", "m", "o", "n", "s", "t", "r",
               "a", "t", "e", "?">>
        ELSE IF context # <<>>
        THEN IF MatchesAny(context, DemonstrationWords)
             THEN IF heading # <<>> THEN showExample
                  ELSE <<"W", "h", "a", "t", " ", "d", "o", "e", "s", " ",
                         "t", "h", "i", "s", " ", "c", "o", "d", "e", " ",
                         "d", "e", "m", "o", "n", "s", "t", "r", "a", "t",
                         "e", "?">>
             ELSE IF toMatch(context) # <<>>
             THEN <<"H", "o", "w", " ", "d", "o", " ", "y", "o", "u", " ">>
                      \o trim(toLowerCase(toMatch(context)[1])) \o <<"?">>
             ELSE IF verbMatch(context) # <<>>
             THEN <<"H", "o", "w", " ", "d", "o", " ", "y", "o", "u", " ">>
                      \o verbMatch(context)[1] \o <<" ">>
                      \o (IF heading # <<>> THEN toLowerCase(heading)
                          ELSE <<"t", "h", "i", "s">>)
                      \o <<"?">>
             ELSE IF heading # <<>> THEN implement
                  ELSE <<"W", "h", "a", "t", " ", "d", "o", "e", "s", " ",
                         "t", "h", "i", "s", " ", "c", "o", "d", "e", " ",
                         "d", "o", "?">>
        ELSE IF heading # <<>>
        THEN IF MatchesAny(heading, { <<"h", "o", "w">>,
                                      <<"w", "h", "a", "t">>,
                                      <<"w", "h", "y">>,
                                      <<"w", "h", "e", "n">> })
             THEN IF endsWith(heading, <<"?">>) THEN heading
                  ELSE heading \o <<"?">>
             ELSE implement
        ELSE <<"W", "h", "a", "t", " ", "d", "o", "e", "s", " ", "t", "h",
               "i", "s", " ", "c", "o", "d", "e", " ", "d", "e", "m", "o",
               "n", "s", "t", "r", "a", "t", "e", "?">>

\* the answer of a code card: the block between its marks, the language
\* after the opening mark when it has one
CodeAnswer(language, code) ==
    CodeFence \o language \o <<"\n">> \o code \o <<"\n">> \o CodeFence

RECURSIVE extractCodeExamples(_)
\* the cards extractCodeExamples returns.  A section of the text can end
\* with a fenced block: fence.language is the text after its opening mark,
\* fence.code its lines joined by "\n", fence.closed tells whether a closing
\* mark follows.  The line above the block is the section's content and the
\* heading of the section is found above it when its level is 2 to 4.
extractCodeExamples(markdown) ==
    IF markdown = <<>> THEN <<>>
    ELSE LET section == Head(markdown)
         IN  IF ~Has(section, "fence")
             THEN extractCodeExamples(Tail(markdown))
             ELSE LET language == trim(section.fence.language)
                      code == trim(section.fence.code)
                      prevLine == trim(section.content)
                      heading == IF section.level \in 2 .. 4
                                 THEN trim(section.heading) ELSE <<>>
                      context == IF /\ prevLine # <<>>
                                    /\ ~startsWith(prevLine, <<"#">>)
                                    /\ ~startsWith(prevLine, CodeFence)
                                    /\ Len(prevLine) > 15
                                 THEN prevLine ELSE <<>>
                  IN  \* without a closing mark the block takes the rest of
                      \* the text
                      IF ~section.fence.closed THEN <<>>
                      \* continue, with the closing mark as the next line:
                      \* it is read as the opening mark of a block, which
                      \* nothing closes when no other block follows, as in
                      \* the texts of the model
                      ELSE IF code = <<>> \/ Len(code) < 10 \/ Len(code) > 1000
                      THEN <<>>
                      ELSE <<[ question |-> CodeQuestion(heading, context),
                               answer |-> CodeAnswer(language, code),
                               source |-> "auto",
                               type |-> "code",
                               language |-> IF language = <<>>
                                            THEN <<"p", "l", "a", "i", "n",
                                                   "t", "e", "x", "t">>
                                            ELSE language ]>>
                               \o extractCodeExamples(Tail(markdown))

\* the lists cards.filter(isValidCard) of parseMarkdownForFlashcards can be:
\* the heading cards and, when the configuration asks for them, the code
\* cards (the texts of the model hold no bold definition and no list)
FilteredCards(markdown) ==
    { SelectSeq(cards \o (IF getSettings.includeCodeExamples
                          THEN extractCodeExamples(markdown) ELSE <<>>),
                isValidCard) :
        cards \in extractFromHeadings(markdown) }

\* the lists parseMarkdownForFlashcards can return
parseMarkdownForFlashcards(markdown) ==
    { deduplicateCards(cards) : cards \in FilteredCards(markdown) }

-----------------------------------------------------------------------------
(* Inputs *)

Questions == { <<"q", "1">>, <<"Q", "1">> }
Answers == { "a1" }
Modes == { "all", "due" }

\* objects a caller passes to saveSettings
UserSettings ==
    { Merge(DEFAULT_SETTINGS, [shuffleCards |-> FALSE]) }

\* scheduler configurations a caller passes to saveSettings
SchedulerSettings ==
    { [learningSteps |-> <<10>>, graduatingInterval |-> 6, maxInterval |-> 3],
      [learningSteps |-> <<0, 10>>],
      [learningSteps |-> <<>>] }

\* card lists of the files handed to importDeck
ImportedDecks ==
    { <<[question |-> <<"q", "1">>, answer |-> "a1",
         easinessFactor |-> 100, confidence |-> 7]>>,
      <<[question |-> <<"Q", "1">>, answer |-> "a1"],
        [question |-> <<"q", "1">>, answer |-> "a2"]>> }

\* card list of a file exportDeck wrote for a topic whose card 1 had the
\* question q2 (the stored records, ids included)
ExportedDecks ==
    { <<[ id |-> 1, question |-> <<"q", "2">>, answer |-> "a1",
          source |-> "manual", confidence |-> 0, reviewCount |-> 0,
          correctCount |-> 0, easinessFactor |-> 250, interval |-> 0,
          repetitions |-> 0, nextReviewDate |-> 1, isNew |-> TRUE,
          stepIndex |-> 0 ]>> }

\* candidate lists of a generation run: the cards the extractors of
\* parseMarkdownForFlashcards produce, or the cards a generator returns
CandidateRuns ==
    { <<[question |-> <<"q", "1">>, answer |-> "a1", source |-> "auto"],
        [question |-> <<"Q", "1", "?">>, answer |-> "a1", source |-> "auto"]>> }

\* markdown texts of the manager page: the heading line and the content of
\* each section, and the fenced block that ends it when it has one (no text
\* has more than one block)
Markdowns ==
    { <<[level |-> 2, heading |-> <<"A", " ", "v", "s", " ", "B">>, content |-> "a1"],
        [level |-> 3, heading |-> <<"C", "a", "c", "h", "e", " ", "b", "e",
                                    "n", "e", "f", "i", "t", "s">>,
         content |-> "a2"]>>,
      <<[level |-> 2, heading |-> <<"W", "h", "y", " ", "c", "a", "c", "h",
                                    "e">>,
         content |-> "a1"],
        [level |-> 3, heading |-> <<"U", "s", "i", "n", "g", " ", "m", "a",
                                    "p", "s">>,
         content |-> "a2"],
        [level |-> 2, heading |-> <<"S", "u", "m", "m", "a", "r", "y">>,
         content |-> "a3"]>>,
      <<[level |-> 2, heading |-> <<"w", "h", "y", " ", "c", "a", "c", "h",
                                    "e">>,
         content |-> "a1"],
        [level |-> 2, heading |-> <<"W", "h", "y", " ", "c", "a", "c", "h",
                                    "e", "?">>,
         content |-> "a2"]>>,
      \* a block of twelve characters with a language, under a heading of
      \* level 4
      <<[level |-> 4, heading |-> <<"S", "i", "m", "p", "l", "e", " ", "c",
                                    "a", "c", "h", "e">>,
         content |-> <<"A", " ", "m", "a", "p", " ", "k", "e", "e", "p", "s",
                       " ", "e", "a", "c", "h", " ", "r", "e", "s", "u", "l",
                       "t", ".">>,
         fence |-> [language |-> <<"j", "s">>,
                    code |-> <<"m", "[", "k", "]", " ", "=", " ", "f", "(",
                               "k", ")", ";">>,
                    closed |-> TRUE]],
        [level |-> 2, heading |-> <<"W", "h", "y", " ", "c", "a", "c", "h",
                                    "e">>,
         content |-> "a1"]>>,
      \* a block of two lines without a language
      <<[level |-> 4, heading |-> <<"M", "a", "p", " ", "s", "t", "o", "r",
                                    "e">>,
         content |-> <<"U", "s", "e", " ", "a", " ", "m", "a", "p", " ", "t",
                       "o", " ", "c", "a", "c", "h", "e", " ", "r", "e", "s",
                       "u", "l", "t", "s", ":">>,
         fence |-> [language |-> <<>>,
                    code |-> <<"m", " ", "=", " ", "{", "}", ";", "\n", "m",
                               "[", "k", "]", " ", "=", " ", "f", "(", "k",
                               ")", ";">>,
                    closed |-> TRUE]],
        [level |-> 3, heading |-> <<"U", "s", "i", "n", "g", " ", "m", "a",
                                    "p", "s">>,
         content |-> "a2"]>>,
      \* a block of five characters, and a block without closing mark
      <<[level |-> 4, heading |-> <<"M", "a", "p", " ", "s", "t", "o", "r",
                                    "e">>,
         content |-> <<"O", "n", "e", " ", "l", "i", "n", "e", ".">>,
         fence |-> [language |-> <<"j", "s">>,
                    code |-> <<"x", " ", "=", " ", "1">>,
                    closed |-> TRUE]],
        [level |-> 2, heading |-> <<"W", "h", "y", " ", "c", "a", "c", "h",
                                    "e">>,
         content |-> "a1"]>>,
      <<[level |-> 4, heading |-> <<"M", "a", "p", " ", "s", "t", "o", "r",
                                    "e">>,
         content |-> <<"U", "s", "e", " ", "a", " ", "m", "a", "p", " ", "t",
                       "o", " ", "c", "a", "c", "h", "e", " ", "r", "e", "s",
                       "u", "l", "t", "s", ":">>,
         fence |-> [language |-> <<"j", "s">>,
                    code |-> <<"m", "[", "k", "]", " ", "=", " ", "f", "(",
                               "k", ")", ";">>,
                    closed |-> FALSE]]>> }

\* sections whose headings are questions already: two of them give the
\* question of another one in another letter case or punctuation
RepeatedSections ==
    { [level |-> 2, heading |-> <<"W", "h", "y", " ", "c", "a", "c", "h",
                                  "e">>, content |-> "a1"],
      [level |-> 3, heading |-> <<"w", "h", "y", " ", "c", "a", "c", "h", "e",
                                  "?">>, content |-> "a2"],
      [level |-> 2, heading |-> <<"W", "h", "y", " ", "m", "a", "p", "s">>, content |-> "a3"],
      [level |-> 2, heading |-> <<"W", "H", "Y", "-", "M", "A", "P", "S">>, content |-> "a4"] }

\* the texts of up to MaxSections of these sections
RepeatedMarkdowns ==
    UNION { [1 .. n -> RepeatedSections] : n \in 1 .. MaxSections }

\* parsed files handed to importDeck: with a card that has no question after
\* a well-formed card, with such a card alone, and without a card list
ImportedFiles ==
    { [cards |-> <<[id |-> 2, question |-> <<"q", "2">>, answer |-> "a1"],
                   [answer |-> "a2"]>>],
      [cards |-> <<[id |-> 2, answer |-> "a2"]>>],
      [title |-> "t"] }

\* properties callers assign on a settings object, with the value assigned
AssignedSettings ==
    { [key |-> "questionsPerSection", value |-> 5],
      [key |-> "maxInterval", value |-> 3] }

-----------------------------------------------------------------------------
(* Operations *)

TotalCards ==
    LET RECURSIVE Sum(_)
        Sum(ts) == IF ts = {} THEN 0
                   ELSE LET t == CHOOSE x \in ts : TRUE
                        IN  Len(storage[t]) + Sum(ts \ {t})
    IN  Sum(Topics)

Init ==
    /\ storage = [t \in Topics |-> <<>>]
    /\ settingsItem = <<>>
    /\ currentSession = <<>>
    /\ now = 1
    /\ nextId = 1
    /\ defaultSettings = DEFAULT_SETTINGS
    /\ currentMarkdown = <<>>
    /\ pendingCards = <<>>

\* saveNewCard of the manager page, not editing: saveFlashcard of a manual card
SaveNewCard(topicId, question, answer, ok) ==
    /\ nextId <= MaxCards
    /\ TotalCards < MaxCards
    /\ storage' = saveAllFlashcards(storage,
                      saveFlashcard(storage, topicId,
                          [question |-> question, answer |-> answer,
                           source |-> "manual"], nextId), ok)
    /\ nextId' = nextId + 1
    /\ UNCHANGED <<settingsItem, currentSession, now, pageVars>>

\* saveNewCard of the manager page, editing: updateFlashcard of question, answer
UpdateFlashcard(topicId, cardId, question, answer, ok) ==
    /\ FindIndex(storage[topicId], cardId) # 0
    /\ storage' = saveAllFlashcards(storage,
                      updateFlashcard(storage, topicId, cardId,
                          [question |-> question, answer |-> answer]), ok)
    /\ UNCHANGED <<settingsItem, currentSession, now, nextId, pageVars>>

\* importDeck of a well-formed file with the card list cards
ImportDeck(cards, topicId, oks) ==
    /\ nextId + Len(cards) <= MaxCards + 1
    /\ TotalCards + Len(cards) <= MaxCards
    /\ LET done == ImportCards(storage, nextId, cards, storage[topicId], topicId, oks)
       IN  /\ storage' = done.data
           /\ nextId' = done.id
    /\ UNCHANGED <<settingsItem, currentSession, now, pageVars>>

\* importDeck of any parsed file
ImportFile(jsonData, topicId, oks) ==
    LET done == importDeck(storage, nextId, jsonData, topicId, oks)
    IN  /\ Len(done.data[topicId]) <= MaxCards
        /\ done.id <= MaxCards + 1
        /\ storage' = done.data
        /\ nextId' = done.id
        /\ UNCHANGED <<settingsItem, currentSession, now, pageVars>>

DeleteFlashcard(topicId, cardId, ok) ==
    /\ storage' = saveAllFlashcards(storage,
                      deleteFlashcard(storage, topicId, cardId), ok)
    /\ UNCHANGED <<settingsItem, currentSession, now, nextId, pageVars>>

\* SaveSettings that also caps the interval of the stored cards at the new
\* maximum
SaveSettingsReschedules(settings) ==
    /\ settingsItem' = <<settings>>
    /\ storage' =
          [t \in Topics |->
              [i \in 1 .. Len(storage[t]) |->
                  [storage[t][i] EXCEPT
                      !.interval =
                          Min(@, OrElse(settings, "maxInterval", 365) * MinutesPerDay)]]]
    /\ UNCHANGED <<currentSession, now, nextId, pageVars>>

SaveSettings(settings) ==
    /\ settingsItem' = <<settings>>
    /\ UNCHANGED <<storage, currentSession, now, nextId, pageVars>>

StartStudySession(topicId, mode, shuffle) ==
    LET sessionCards == IF mode = "due" THEN getDueCards(topicId)
                        ELSE getFlashcards(topicId)
        sorted == SortByDate(sessionCards)
    IN  /\ sessionCards # <<>>
        /\ \E deck \in (IF shuffle \/ getSettings.shuffleCards
                        THEN shuffleArray(sorted) ELSE {sorted}) :
              currentSession' =
                  <<[ topicId |-> topicId,
                      cards |-> deck,
                      currentIndex |-> 0,
                      correct |-> 0,
                      review |-> 0,
                      isFlipped |-> FALSE ]>>
        /\ UNCHANGED <<storage, settingsItem, now, nextId, pageVars>>

\* a caller assigns a property of the object getSettings returned to it
\* (settings[key] = value): when nothing is stored that object is
\* DEFAULT_SETTINGS itself, otherwise it is a fresh copy
ModifyReturnedSettings(key, value) ==
    /\ settingsItem = <<>>
    /\ defaultSettings' = Merge(defaultSettings, key :> value)
    /\ UNCHANGED <<storage, settingsItem, currentSession, now, nextId,
                   currentMarkdown, pendingCards>>

\* saveAISetting of the manager page: the property is assigned on the object
\* getSettings returned, and the object is saved (ok) or the write fails
SaveAISetting(key, value, ok) ==
    LET settings == Merge(getSettings, key :> value)
    IN  /\ defaultSettings' = IF settingsItem = <<>> THEN settings ELSE defaultSettings
        /\ settingsItem' = IF ok THEN <<settings>> ELSE settingsItem
        /\ UNCHANGED <<storage, currentSession, now, nextId,
                       currentMarkdown, pendingCards>>

\* the values currentSession can have when startStudySession returns: with
\* an empty deck the function returns null at once and does not assign
\* currentSession
SessionsAfterStart(topicId, mode, shuffle) ==
    LET sessionCards == IF mode = "due" THEN getDueCards(topicId)
                        ELSE getFlashcards(topicId)
        sorted == SortByDate(sessionCards)
    IN  IF sessionCards = <<>> THEN {currentSession}
        ELSE { <<[ topicId |-> topicId,
                   cards |-> deck,
                   currentIndex |-> 0,
                   correct |-> 0,
                   review |-> 0,
                   isFlipped |-> FALSE ]>> :
                 deck \in (IF shuffle \/ getSettings.shuffleCards
                           THEN shuffleArray(sorted) ELSE {sorted}) }

\* FlipCard that also moves to the next card
FlipCardMovesOn ==
    /\ HasSession
    /\ currentSession' = <<[currentSession[1] EXCEPT
                              !.isFlipped = ~@, !.currentIndex = @ + 1]>>
    /\ UNCHANGED <<storage, settingsItem, now, nextId, pageVars>>

FlipCard ==
    /\ HasSession
    /\ currentSession' = <<[currentSession[1] EXCEPT !.isFlipped = ~@]>>
    /\ UNCHANGED <<storage, settingsItem, now, nextId, pageVars>>

RecordAnswer(rating, ok) ==
    /\ HasSession
    /\ getCurrentCard # <<>>
    /\ LET session == currentSession[1]
           quality == rating
           card == ScoredCard(getCurrentCard[1], quality)
       IN  /\ storage' =
                 IF FindIndex(storage[session.topicId], card.id) # 0
                 THEN saveAllFlashcards(storage,
                          updateFlashcard(storage, session.topicId, card.id, card), ok)
                 ELSE storage
           /\ currentSession' = <<AdvanceSession(session, card, quality)>>
    /\ UNCHANGED <<settingsItem, now, nextId, pageVars>>

\* SkipCard that passes over all the cards that are left
SkipCardToEnd ==
    /\ HasSession
    /\ currentSession[1].currentIndex < MaxSkips
    /\ currentSession' = <<[currentSession[1] EXCEPT
                              !.currentIndex = Max(@ + 1, Len(currentSession[1].cards)),
                              !.isFlipped = FALSE]>>
    /\ UNCHANGED <<storage, settingsItem, now, nextId, pageVars>>

\* SkipCard that counts the skipped card as a lapse
SkipCardCountsLapse ==
    /\ HasSession
    /\ currentSession[1].currentIndex < MaxSkips
    /\ currentSession' = <<[currentSession[1] EXCEPT
                              !.currentIndex = @ + 1, !.review = @ + 1,
                              !.isFlipped = FALSE]>>
    /\ UNCHANGED <<storage, settingsItem, now, nextId, pageVars>>

SkipCard ==
    /\ HasSession
    /\ currentSession[1].currentIndex < MaxSkips
    /\ currentSession' = <<[currentSession[1] EXCEPT
                              !.currentIndex = @ + 1, !.isFlipped = FALSE]>>
    /\ UNCHANGED <<storage, settingsItem, now, nextId, pageVars>>

EndSession ==
    /\ HasSession
    /\ currentSession' = <<>>
    /\ UNCHANGED <<storage, settingsItem, now, nextId, pageVars>>

\* saveFlashcard called again with a card it has stored (the object carries
\* the id and every field of the stored record)
SaveFlashcardAgain(topicId, index, ok) ==
    /\ index \in 1 .. Len(storage[topicId])
    /\ TotalCards < MaxCards
    /\ storage' = saveAllFlashcards(storage,
                      saveFlashcard(storage, topicId, storage[topicId][index], nextId),
                      ok)
    /\ UNCHANGED <<settingsItem, currentSession, now, nextId, pageVars>>

\* showAutoGenerateModal then generateWithPatterns of the manager page: the
\* candidates are deduplicated by parseMarkdownForFlashcards, then each of
\* the pending cards is saved
GenerateWithPatterns(candidates, topicId, oks) ==
    LET pending == deduplicateCards(candidates)
    IN  /\ nextId + Len(pending) <= MaxCards + 1
        /\ TotalCards + Len(pending) <= MaxCards
        /\ LET done == SaveCards(storage, nextId, pending, topicId, oks)
           IN  /\ storage' = done.data
               /\ nextId' = done.id
        /\ UNCHANGED <<settingsItem, currentSession, now, pageVars>>

\* generateWithAI of the manager page: every card the generator returned is
\* saved
GenerateWithAI(allCards, topicId, oks) ==
    /\ nextId + Len(allCards) <= MaxCards + 1
    /\ TotalCards + Len(allCards) <= MaxCards
    /\ LET done == SaveCards(storage, nextId, allCards, topicId, oks)
       IN  /\ storage' = done.data
           /\ nextId' = done.id
    /\ UNCHANGED <<settingsItem, currentSession, now, pageVars>>

\* showAutoGenerateModal of the manager page: the cards extracted from the
\* page's markdown, when it has one, become the pending cards, unless there
\* is none
ShowAutoGenerateModal ==
    \E cards \in parseMarkdownForFlashcards(currentMarkdown) :
        /\ currentMarkdown # <<>>
        /\ pendingCards' = IF cards = <<>> THEN pendingCards ELSE <<cards>>
        /\ UNCHANGED <<storage, settingsItem, currentSession, now, nextId,
                       defaultSettings, currentMarkdown>>

\* confirmAutoGenerate without the AI toggle, that is generateWithPatterns:
\* each pending card is saved and the pending cards are dropped
ConfirmAutoGenerate(topicId, oks) ==
    /\ pendingCards # <<>>
    /\ nextId + Len(pendingCards[1]) <= MaxCards + 1
    /\ TotalCards + Len(pendingCards[1]) <= MaxCards
    /\ LET done == SaveCards(storage, nextId, pendingCards[1], topicId, oks)
       IN  /\ storage' = done.data
           /\ nextId' = done.id
    /\ pendingCards' = <<>>
    /\ UNCHANGED <<settingsItem, currentSession, now, defaultSettings,
                   currentMarkdown>>

\* time passes
Tick ==
    /\ now + MinutesPerDay <= 1 + MaxDays * MinutesPerDay
    /\ now' = now + MinutesPerDay
    /\ UNCHANGED <<storage, settingsItem, currentSession, nextId, pageVars>>

StoredIds(topicId) == {storage[topicId][i].id : i \in 1 .. Len(storage[topicId])}

\* the current card has been reviewed fewer than n times
ReviewsBelow(n) ==
    getCurrentCard # <<>> /\ getCurrentCard[1].reviewCount < n

StudyTopic == "t1"

Next ==
    \/ \E q \in Questions, a \in Answers, ok \in BOOLEAN :
          SaveNewCard(StudyTopic, q, a, ok)
    \/ \E q \in Questions, a \in Answers, ok \in BOOLEAN :
          \E id \in StoredIds(StudyTopic) : UpdateFlashcard(StudyTopic, id, q, a, ok)
    \/ \E ok \in BOOLEAN :
          \E id \in StoredIds(StudyTopic) : DeleteFlashcard(StudyTopic, id, ok)
    \/ \E d \in ImportedDecks :
          \E oks \in [1 .. Len(d) -> BOOLEAN] : ImportDeck(d, StudyTopic, oks)
    \/ \E s \in UserSettings : SaveSettings(s)
    \/ \E m \in Modes, sh \in BOOLEAN : StartStudySession(StudyTopic, m, sh)
    \/ FlipCard
    \/ \E r \in Qualities, ok \in BOOLEAN : ReviewsBelow(MaxReviews) /\ RecordAnswer(r, ok)
    \/ SkipCard
    \/ EndSession
    \/ Tick

Spec == Init /\ [][Next]_vars

-----------------------------------------------------------------------------
(* The study loop: cards are created and studied to the end; no card is   *)
(* skipped                                                                *)

NextStudy ==
    \/ \E a \in Answers, ok \in BOOLEAN :
          SaveNewCard(StudyTopic, <<"q", "1">>, a, ok)
    \/ \E m \in Modes, sh \in BOOLEAN : StartStudySession(StudyTopic, m, sh)
    \/ FlipCard
    \/ \E r \in Qualities, ok \in BOOLEAN : ReviewsBelow(MaxReviews) /\ RecordAnswer(r, ok)
    \/ EndSession

SpecStudy == Init /\ [][NextStudy]_vars

-----------------------------------------------------------------------------
(* The review loop: one card, created by saveFlashcard, is reviewed again *)
(* and again while the scheduler configuration is edited and time passes  *)

InitReviews ==
    /\ now = 1
    /\ storage = [t \in Topics |->
                    IF t = StudyTopic
                    THEN <<WithDefaults([question |-> <<"q", "1">>, answer |-> "a1",
                                         source |-> "manual"], 1)>>
                    ELSE <<>>]
    /\ settingsItem = <<>>
    /\ currentSession = <<>>
    /\ nextId = 2
    /\ defaultSettings = DEFAULT_SETTINGS
    /\ currentMarkdown = <<>>
    /\ pendingCards = <<>>

NextReviews ==
    \/ \E s \in SchedulerSettings : SaveSettings(s)
    \/ StartStudySession(StudyTopic, "all", FALSE)
    \/ \E r \in Qualities, ok \in BOOLEAN :
          ReviewsBelow(MaxLadderReviews) /\ RecordAnswer(r, ok)
    \/ Tick

SpecReviews == InitReviews /\ [][NextReviews]_vars

-----------------------------------------------------------------------------
(* The scheduler: the card is reviewed up to MaxScored times, every review *)
(* written, while the scheduler configuration is edited and time passes   *)

NextScheduler ==
    \/ \E s \in SchedulerSettings : SaveSettings(s)
    \/ StartStudySession(StudyTopic, "all", FALSE)
    \/ \E r \in Qualities : ReviewsBelow(MaxScored) /\ RecordAnswer(r, TRUE)
    \/ Tick

SpecScheduler == InitReviews /\ [][NextScheduler]_vars

-----------------------------------------------------------------------------
(* The settings: callers read the settings, assign properties on what they *)
(* get and save it, while the card is reviewed                             *)

NextSettings ==
    \/ \E a \in AssignedSettings : ModifyReturnedSettings(a.key, a.value)
    \/ \E a \in AssignedSettings, ok \in BOOLEAN : SaveAISetting(a.key, a.value, ok)
    \/ StartStudySession(StudyTopic, "all", FALSE)
    \/ \E r \in Qualities, ok \in BOOLEAN :
          ReviewsBelow(MaxReviews) /\ RecordAnswer(r, ok)
    \/ Tick

SpecSettings == InitReviews /\ [][NextSettings]_vars

-----------------------------------------------------------------------------
(* The session: cards are created, and sessions are started, flipped,     *)
(* skipped, scored and ended                                              *)

NextSession ==
    \/ \E a \in Answers : SaveNewCard(StudyTopic, <<"q", "1">>, a, TRUE)
    \/ \E m \in Modes, sh \in BOOLEAN : StartStudySession(StudyTopic, m, sh)
    \/ FlipCard
    \/ SkipCard
    \/ \E r \in Qualities : ReviewsBelow(MaxReviews) /\ RecordAnswer(r, TRUE)
    \/ EndSession

SpecSession == Init /\ [][NextSession]_vars

-----------------------------------------------------------------------------
(* Building decks: cards are created at different times and reviewed, the  *)
(* shuffle setting is switched off, and sessions are started in both modes *)

\* the rating of the button Good
DeckRatings == {4}

NextDecks ==
    \/ \E a \in Answers : SaveNewCard(StudyTopic, <<"q", "1">>, a, TRUE)
    \/ \E s \in UserSettings : SaveSettings(s)
    \/ \E m \in Modes, sh \in BOOLEAN : StartStudySession(StudyTopic, m, sh)
    \/ \E r \in DeckRatings : ReviewsBelow(MaxReviews) /\ RecordAnswer(r, TRUE)
    \/ EndSession
    \/ Tick

SpecDecks == Init /\ [][NextDecks]_vars

-----------------------------------------------------------------------------
(* Reading an item of any content.  Here the variable storage holds the    *)
(* item of localStorage itself: [kind |-> "absent"] when getItem returns   *)
(* null, [kind |-> "text"] for text JSON.parse rejects, and                *)
(* [kind |-> "json", value |-> v] for text it parses to v.  A parsed value *)
(* carries its type; the elements of an array are card objects (plain      *)
(* records, as everywhere else) or null.  A call either throws or returns. *)

JUndefined == [type |-> "undefined"]
JNull == [type |-> "null"]
JNumber(n) == [type |-> "number", number |-> n]
JString(chars) == [type |-> "string", chars |-> chars]
JArray(items) == [type |-> "array", items |-> items]
JObject(fields) == [type |-> "object", fields |-> fields]

Threw == [threw |-> TRUE]
Returned(value) == [threw |-> FALSE, value |-> value]

\* { flashcards: {}, stats: {} }
EmptyStore == JObject([flashcards |-> JObject(<<>>), stats |-> JObject(<<>>)])

\* getAllFlashcards: the default for an absent item (data is falsy) and for
\* text JSON.parse throws on (caught); otherwise whatever the text parses to
getAllFlashcards(item) ==
    IF item.kind = "json" THEN item.value ELSE EmptyStore

\* value[name]: a TypeError on null and undefined, undefined where the value
\* has no such property
Property(value, name) ==
    IF value.type \in {"null", "undefined"} THEN Threw
    ELSE IF value.type = "object" /\ name \in DOMAIN value.fields
    THEN Returned(value.fields[name])
    ELSE Returned(JUndefined)

Falsy(value) ==
    \/ value.type \in {"null", "undefined"}
    \/ value.type = "number" /\ value.number = 0
    \/ value.type = "string" /\ value.chars = <<>>

IsNullItem(element) == Has(element, "type") /\ element.type = "null"

\* getFlashcards: data.flashcards[topicId] || []
getFlashcardsOf(item, topicId) ==
    LET flashcards == Property(getAllFlashcards(item), "flashcards")
    IN  IF flashcards.threw THEN Threw
        ELSE LET cards == Property(flashcards.value, topicId)
             IN  IF cards.threw THEN Threw
                 ELSE IF Falsy(cards.value) THEN Returned(JArray(<<>>))
                 ELSE cards

\* getDueCards: cards.filter is a TypeError unless cards is an array, and
\* the callback reads card.nextReviewDate of every element
getDueCardsOf(item, topicId) ==
    LET cards == getFlashcardsOf(item, topicId)
    IN  IF cards.threw THEN Threw
        ELSE IF cards.value.type # "array" THEN Threw
        ELSE IF \E i \in 1 .. Len(cards.value.items) : IsNullItem(cards.value.items[i])
        THEN Threw
        ELSE Returned(JArray(SelectSeq(cards.value.items, IsDue)))

\* startStudySession up to the sort: the sorted session cards.  The spread
\* [...cards] is a TypeError unless cards is an array or a string (whose
\* elements are its characters); the comparator of sort, called when there
\* are two elements or more, reads nextReviewDate of the elements
startStudySessionOf(item, topicId, mode) ==
    LET cards == IF mode = "due" THEN getDueCardsOf(item, topicId)
                 ELSE getFlashcardsOf(item, topicId)
    IN  IF cards.threw THEN Threw
        ELSE IF cards.value.type \notin {"array", "string"} THEN Threw
        ELSE LET sessionCards ==
                     IF cards.value.type = "string"
                     THEN [i \in 1 .. Len(cards.value.chars) |->
                              JString(<<cards.value.chars[i]>>)]
                     ELSE cards.value.items
             IN  IF /\ Len(sessionCards) >= 2
                    /\ \E i \in 1 .. Len(sessionCards) : IsNullItem(sessionCards[i])
                 THEN Threw
                 ELSE Returned(SortByDate(sessionCards))

\* a card as saveFlashcard stores it at time 1, due at time due
StoredCard(id, due) ==
    [ id |-> id, question |-> <<"q", "1">>, answer |-> "a1", source |-> "manual",
      confidence |-> UNKNOWN, reviewCount |-> 0, correctCount |-> 0,
      easinessFactor |-> InitialEasiness, interval |-> 0, repetitions |-> 0,
      nextReviewDate |-> due, isNew |-> TRUE, stepIndex |-> 0 ]

StoreOf(flashcards) ==
    [kind |-> "json",
     value |-> JObject([flashcards |-> flashcards, stats |-> JObject(<<>>)])]

\* items written by saveAllFlashcards
WellFormedItems ==
    { StoreOf(JObject(<<>>)),
      StoreOf(JObject([t1 |-> JArray(<<StoredCard(1, 1)>>)])),
      StoreOf(JObject([t1 |-> JArray(<<StoredCard(1, 1 + MinutesPerDay),
                                       StoredCard(2, 1)>>)])) }

\* items of another content: text that is not JSON, and JSON of another shape
CorruptedItems ==
    { [kind |-> "text"],
      [kind |-> "json", value |-> JNull],
      [kind |-> "json", value |-> JNumber(5)],
      [kind |-> "json", value |-> JObject(<<>>)],
      StoreOf(JNull),
      StoreOf(JObject([t1 |-> JString(<<"a", "b">>)])),
      StoreOf(JObject([t1 |-> JObject(<<>>)])),
      StoreOf(JObject([t1 |-> JArray(<<JNull>>)])),
      StoreOf(JObject([t1 |-> JArray(<<StoredCard(1, 1), JNull>>)])) }

RawItems == {[kind |-> "absent"]} \cup WellFormedItems \cup CorruptedItems

InitRead ==
    /\ storage \in RawItems
    /\ settingsItem = <<>>
    /\ currentSession = <<>>
    /\ now = 1
    /\ nextId = 1
    /\ defaultSettings = DEFAULT_SETTINGS
    /\ currentMarkdown = <<>>
    /\ pendingCards = <<>>

\* startStudySession on the item: no step when it throws or returns null
StartStudySessionOnItem(topicId, mode, shuffle) ==
    LET started == startStudySessionOf(storage, topicId, mode)
    IN  /\ ~started.threw
        /\ started.value # <<>>
        /\ \E deck \in (IF shuffle \/ getSettings.shuffleCards
                        THEN shuffleArray(started.value) ELSE {started.value}) :
              currentSession' =
                  <<[ topicId |-> topicId,
                      cards |-> deck,
                      currentIndex |-> 0,
                      correct |-> 0,
                      review |-> 0,
                      isFlipped |-> FALSE ]>>
        /\ UNCHANGED <<storage, settingsItem, now, nextId, pageVars>>

NextRead ==
    \/ \E t \in Topics, m \in Modes, sh \in BOOLEAN : StartStudySessionOnItem(t, m, sh)
    \/ \E s \in UserSettings : SaveSettings(s)
    \/ FlipCard
    \/ SkipCard
    \/ EndSession
    \/ Tick

SpecRead == InitRead /\ [][NextRead]_vars

-----------------------------------------------------------------------------
(* The deletion: cards are deleted from topics that hold up to MaxStored  *)
(* cards, some of them stored twice (saveFlashcard keeps the id of a card *)
(* that is submitted again)                                               *)

\* the ids of the cards of a topic, in their order: the card stored first
\* has the id 1
StoredIdLists ==
    {ids \in UNION {[1 .. n -> 1 .. 3] : n \in 0 .. MaxStored} :
        ids # <<>> => ids[1] = 1}

InitDelete ==
    /\ now = 1
    /\ \E ids \in [Topics -> StoredIdLists] :
          storage = [t \in Topics |->
                        [i \in 1 .. Len(ids[t]) |->
                            WithDefaults([id |-> ids[t][i], question |-> <<"q", "1">>,
                                          answer |-> "a1", source |-> "manual"], 4)]]
    /\ settingsItem = <<>>
    /\ currentSession = <<>>
    /\ nextId = 4
    /\ defaultSettings = DEFAULT_SETTINGS
    /\ currentMarkdown = <<>>
    /\ pendingCards = <<>>

NextDelete ==
    \E t \in Topics, id \in 1 .. 4, ok \in BOOLEAN : DeleteFlashcard(t, id, ok)

SpecDelete == InitDelete /\ [][NextDelete]_vars

-----------------------------------------------------------------------------
(* The import: files of any content are imported into topics whose cards  *)
(* are created by hand and deleted                                        *)

NextImport ==
    \/ \E t \in Topics, q \in Questions, a \in Answers, ok \in BOOLEAN :
          SaveNewCard(t, q, a, ok)
    \/ \E t \in Topics, f \in ImportedFiles, oks \in [1 .. 2 -> BOOLEAN] :
          ImportFile(f, t, oks)
    \/ \E t \in Topics, ok \in BOOLEAN :
          \E id \in StoredIds(t) : DeleteFlashcard(t, id, ok)

SpecImport == Init /\ [][NextImport]_vars

-----------------------------------------------------------------------------
(* The topics: two topics share the storage item; between the sessions    *)
(* cards are created, imported, edited and deleted in them, and in a      *)
(* session the cards of one topic are reviewed                            *)

NextTopics ==
    \/ \E t \in Topics, a \in Answers, ok \in BOOLEAN :
          ~HasSession /\ SaveNewCard(t, <<"q", "1">>, a, ok)
    \/ \E t \in Topics, ok \in BOOLEAN :
          \E id \in StoredIds(t) :
              ~HasSession /\ UpdateFlashcard(t, id, <<"q", "2">>, "a2", ok)
    \/ \E t \in Topics, ok \in BOOLEAN :
          \E id \in StoredIds(t) : ~HasSession /\ DeleteFlashcard(t, id, ok)
    \/ \E t \in Topics, d \in ExportedDecks :
          ~HasSession /\ ImportDeck(d, t, [i \in 1 .. Len(d) |-> TRUE])
    \/ \E t \in Topics : ~HasSession /\ StartStudySession(t, "all", FALSE)
    \/ \E r \in DeckRatings, ok \in BOOLEAN :
          ReviewsBelow(MaxReviews) /\ RecordAnswer(r, ok)
    \/ EndSession

SpecTopics == Init /\ [][NextTopics]_vars

-----------------------------------------------------------------------------
(* The generation: the manager page holds a markdown text, previews the   *)
(* cards extracted from it and saves them                                 *)

InitExtract ==
    /\ storage = [t \in Topics |-> <<>>]
    /\ settingsItem \in { <<>>,
                          <<Merge(DEFAULT_SETTINGS,
                                  [includeCodeExamples |-> FALSE])>> }
    /\ currentSession = <<>>
    /\ now = 1
    /\ nextId = 1
    /\ defaultSettings = DEFAULT_SETTINGS
    /\ currentMarkdown \in Markdowns \cup RepeatedMarkdowns
    /\ pendingCards = <<>>

NextExtract ==
    \/ ShowAutoGenerateModal
    \/ \E oks \in [1 .. MaxCards -> BOOLEAN] :
          ConfirmAutoGenerate(StudyTopic, SubSeq(oks, 1, Len(pendingCards[1])))

SpecExtract == InitExtract /\ [][NextExtract]_vars

-----------------------------------------------------------------------------
(* The store: cards are created by hand, generated, imported, submitted    *)
(* again, edited, deleted and reviewed                                     *)

NextStore ==
    \/ \E q \in Questions, a \in Answers, ok \in BOOLEAN :
          SaveNewCard(StudyTopic, q, a, ok)
    \/ \E i \in 1 .. MaxCards, ok \in BOOLEAN : SaveFlashcardAgain(StudyTopic, i, ok)
    \/ \E q \in Questions, a \in Answers, ok \in BOOLEAN :
          \E id \in StoredIds(StudyTopic) : UpdateFlashcard(StudyTopic, id, q, a, ok)
    \/ \E ok \in BOOLEAN :
          \E id \in StoredIds(StudyTopic) : DeleteFlashcard(StudyTopic, id, ok)
    \/ \E d \in ImportedDecks \cup ExportedDecks :
          \E oks \in [1 .. Len(d) -> BOOLEAN] : ImportDeck(d, StudyTopic, oks)
    \/ \E c \in CandidateRuns :
          \E oks \in [1 .. Len(c) -> BOOLEAN] : GenerateWithPatterns(c, StudyTopic, oks)
    \/ \E c \in CandidateRuns :
          \E oks \in [1 .. Len(c) -> BOOLEAN] : GenerateWithAI(c, StudyTopic, oks)
    \/ StartStudySession(StudyTopic, "all", FALSE)
    \/ \E r \in Qualities, ok \in BOOLEAN : ReviewsBelow(MaxReviews) /\ RecordAnswer(r, ok)

SpecStore == Init /\ [][NextStore]_vars

-----------------------------------------------------------------------------
(* Claims.  In a step of recordAnswer, Scored is the current card before  *)
(* the call and ScoredAfter the same deck position after it.              *)

Scored == currentSession[1].cards[currentSession[1].currentIndex + 1]
ScoredAfter == currentSession'[1].cards[currentSession[1].currentIndex + 1]
DeckIds(session) == [i \in 1 .. Len(session.cards) |-> session.cards[i].id]

\* C1: session completeness.  While no card is skipped, the cursor equals the
\* number of answers recorded (correct + review), so the k-th answer scores
\* the k-th card of the deck; every recordAnswer scores exactly the card at
\* the cursor, moves the cursor on by one and keeps the deck; and when the
\* cursor reaches the deck length N the session is complete: getCurrentCard
\* is null and correct + review = N.
SessionCompleteness ==
    /\ [](HasSession =>
            LET session == currentSession[1]
            IN  /\ session.correct + session.review = session.currentIndex
                /\ session.currentIndex <= Len(session.cards)
                /\ (session.currentIndex = Len(session.cards) =>
                       /\ getCurrentCard = <<>>
                       /\ session.correct + session.review = Len(session.cards))
                /\ (session.currentIndex < Len(session.cards) =>
                       getCurrentCard = <<session.cards[session.currentIndex + 1]>>))
    /\ [][\A r \in Qualities, ok \in BOOLEAN :
            RecordAnswer(r, ok) =>
                /\ currentSession'[1].currentIndex = currentSession[1].currentIndex + 1
                /\ DeckIds(currentSession'[1]) = DeckIds(currentSession[1])
                /\ \A i \in 1 .. Len(currentSession[1].cards) :
                      i # currentSession[1].currentIndex + 1 =>
                          currentSession'[1].cards[i] = currentSession[1].cards[i]
                /\ ScoredAfter.reviewCount = Scored.reviewCount + 1]_vars

\* C1 witness: a deck of two cards studied to the end, one pass and one lapse
SessionCompletenessWitness ==
    /\ HasSession
    /\ Len(currentSession[1].cards) = 2
    /\ currentSession[1].currentIndex = 2
    /\ currentSession[1].correct = 1
    /\ currentSession[1].review = 1
    /\ currentSession[1].cards[1].reviewCount = 1
    /\ currentSession[1].cards[2].reviewCount = 1

\* C2: recordAnswer called while the answer is not revealed changes neither
\* the store nor the session (its cards, counters and cursor).
ScoreOnlyWhenRevealed ==
    [][\A r \in Qualities, ok \in BOOLEAN :
          (HasSession /\ ~currentSession[1].isFlipped /\ RecordAnswer(r, ok)) =>
              UNCHANGED <<storage, currentSession>>]_vars

\* C3: every recordAnswer whose write is stored raises the scored card's
\* reviewCount by one, in the session and in the store, and raises its
\* correctCount by one on a pass and leaves it on a lapse.
ReviewCountersAdvance ==
    [][\A r \in Qualities :
          RecordAnswer(r, TRUE) =>
              LET passed == IF r >= 3 THEN 1 ELSE 0
                  topicId == currentSession[1].topicId
                  index == FindIndex(storage[topicId], Scored.id)
              IN  /\ ScoredAfter.reviewCount = Scored.reviewCount + 1
                  /\ ScoredAfter.correctCount = Scored.correctCount + passed
                  /\ index # 0 =>
                        /\ storage'[topicId][index].reviewCount =
                               storage[topicId][index].reviewCount + 1
                        /\ storage'[topicId][index].correctCount =
                               storage[topicId][index].correctCount + passed]_vars

InLearning(card) == card.isNew \/ card.repetitions = 0
Graduated(card) == ~card.isNew /\ card.repetitions >= 1

\* C4 as stated: a review with quality < 3 sets repetitions to 0, stepIndex
\* to 0, isNew to false and nextReviewDate to the review time plus
\* learningSteps[0] minutes, whatever the card's state and the ladder.
LapseResetsToFirstStep ==
    [][\A r \in {1, 2}, ok \in BOOLEAN :
          RecordAnswer(r, ok) =>
              /\ ScoredAfter.repetitions = 0
              /\ ScoredAfter.stepIndex = 0
              /\ ScoredAfter.isNew = FALSE
              /\ Len(getSettings.learningSteps) >= 1
              /\ ScoredAfter.nextReviewDate = now + getSettings.learningSteps[1]]_vars

\* C4 as amended: a review with quality < 3 sets repetitions to 0, stepIndex
\* to 0, isNew to false and nextReviewDate to the review time plus
\* learningSteps[0] minutes, or plus 10 minutes when learningSteps[0] is 0 or
\* the ladder is empty.
LapseResetsToFirstStepOrTen ==
    [][\A r \in {1, 2}, ok \in BOOLEAN :
          RecordAnswer(r, ok) =>
              LET steps == getSettings.learningSteps
              IN  /\ ScoredAfter.repetitions = 0
                  /\ ScoredAfter.stepIndex = 0
                  /\ ScoredAfter.isNew = FALSE
                  /\ (Len(steps) >= 1 /\ steps[1] # 0) =>
                        ScoredAfter.nextReviewDate = now + steps[1]
                  /\ (Len(steps) = 0 \/ steps[1] = 0) =>
                        ScoredAfter.nextReviewDate = now + 10]_vars

\* C4 witness: a card that had graduated and had its easiness raised has
\* lapsed under a ladder whose first step is 0, and is due 10 minutes after
\* the review
LapseWitness ==
    /\ HasSession
    /\ currentSession[1].currentIndex = 1
    /\ getSettings.learningSteps = <<0, 10>>
    /\ LET card == currentSession[1].cards[1]
       IN  /\ card.reviewCount >= 3
           /\ card.easinessFactor > InitialEasiness
           /\ card.repetitions = 0
           /\ card.stepIndex = 0
           /\ ~card.isNew
           /\ card.lastReviewed = now
           /\ card.nextReviewDate = now + 10

\* C5 as stated: a pass of a card in learning clears isNew and increments
\* stepIndex; within the ladder the card is due learningSteps[index] minutes
\* later and does not graduate, otherwise it graduates (repetitions 1,
\* interval graduatingInterval days, due that much later).  A brand-new
\* card's first pass puts it at index 1 and graduates it only when the
\* ladder has length 1; under the ladder [10, 1440] the first pass does not
\* graduate and the second does.
LearningLadder ==
    [][\A r \in 3 .. 5, ok \in BOOLEAN :
          (RecordAnswer(r, ok) /\ InLearning(Scored)) =>
              LET steps == getSettings.learningSteps
                  index == Scored.stepIndex + 1
                  days == getSettings.graduatingInterval * MinutesPerDay
                  brandNew == Scored.isNew /\ Scored.stepIndex = 0
                                  /\ Scored.repetitions = 0
              IN  /\ ScoredAfter.isNew = FALSE
                  /\ ScoredAfter.stepIndex = index
                  /\ index < Len(steps) =>
                        /\ ScoredAfter.nextReviewDate = now + steps[index + 1]
                        /\ ScoredAfter.repetitions = Scored.repetitions
                  /\ index >= Len(steps) =>
                        /\ ScoredAfter.repetitions = 1
                        /\ ScoredAfter.interval = days
                        /\ ScoredAfter.nextReviewDate = now + days
                  /\ brandNew =>
                        /\ ScoredAfter.stepIndex = 1
                        /\ Graduated(ScoredAfter) <=> Len(steps) = 1
                  /\ (steps = <<10, 1440>> /\ Scored.repetitions = 0) =>
                        /\ Scored.stepIndex = 0 => ~Graduated(ScoredAfter)
                        /\ Scored.stepIndex = 1 => Graduated(ScoredAfter)]_vars

\* C5 as amended: the same, except that a brand-new card's first pass
\* graduates it exactly when the ladder has length at most 1 (an empty
\* ladder graduates it too).
LearningLadderAtMostOne ==
    [][\A r \in 3 .. 5, ok \in BOOLEAN :
          (RecordAnswer(r, ok) /\ InLearning(Scored)) =>
              LET steps == getSettings.learningSteps
                  index == Scored.stepIndex + 1
                  days == getSettings.graduatingInterval * MinutesPerDay
                  brandNew == Scored.isNew /\ Scored.stepIndex = 0
                                  /\ Scored.repetitions = 0
              IN  /\ ScoredAfter.isNew = FALSE
                  /\ ScoredAfter.stepIndex = index
                  /\ index < Len(steps) =>
                        /\ ScoredAfter.nextReviewDate = now + steps[index + 1]
                        /\ ScoredAfter.repetitions = Scored.repetitions
                  /\ index >= Len(steps) =>
                        /\ ScoredAfter.repetitions = 1
                        /\ ScoredAfter.interval = days
                        /\ ScoredAfter.nextReviewDate = now + days
                  /\ brandNew =>
                        /\ ScoredAfter.stepIndex = 1
                        /\ Graduated(ScoredAfter) <=> Len(steps) <= 1
                  /\ (steps = <<10, 1440>> /\ Scored.repetitions = 0) =>
                        /\ Scored.stepIndex = 0 => ~Graduated(ScoredAfter)
                        /\ Scored.stepIndex = 1 => Graduated(ScoredAfter)]_vars

\* C5 witness: under the default ladder the card has just graduated on its
\* second review, due 6 days after it
LearningLadderWitness ==
    /\ HasSession
    /\ settingsItem = <<>>
    /\ currentSession[1].currentIndex = 1
    /\ LET card == currentSession[1].cards[1]
       IN  /\ card.reviewCount = 2
           /\ card.stepIndex = 2
           /\ card.repetitions = 1
           /\ ~card.isNew
           /\ card.interval = 6 * MinutesPerDay
           /\ card.lastReviewed = now
           /\ card.nextReviewDate = now + 6 * MinutesPerDay

\* C6: every card in the store has an easinessFactor of at least 1.3.
StoredEasinessAtLeastMinimum ==
    \A t \in Topics : \A i \in 1 .. Len(storage[t]) :
        storage[t][i].easinessFactor >= MinEasiness

\* C7: after every review the card's interval is at most maxInterval days.
IntervalWithinMaximum ==
    [][\A r \in Qualities, ok \in BOOLEAN :
          RecordAnswer(r, ok) =>
              ScoredAfter.interval <= getSettings.maxInterval * MinutesPerDay]_vars

\* C8: a pass of a graduated card yields an interval that is not smaller than
\* the interval before the review and not larger than maxInterval days.
GraduatedIntervalMonotone ==
    [][\A r \in 3 .. 5, ok \in BOOLEAN :
          (RecordAnswer(r, ok) /\ Graduated(Scored)) =>
              /\ ScoredAfter.interval >= Scored.interval
              /\ ScoredAfter.interval <= getSettings.maxInterval * MinutesPerDay]_vars

\* C9: after a recordAnswer on a card present in the store, the card's
\* confidence, in the session and in the store, lies in 0 .. 5.
ConfidenceInRange ==
    [][\A r \in Qualities :
          RecordAnswer(r, TRUE) =>
              LET topicId == currentSession[1].topicId
                  index == FindIndex(storage[topicId], Scored.id)
              IN  index # 0 =>
                      /\ ScoredAfter.confidence \in UNKNOWN .. MASTERED
                      /\ storage'[topicId][index].confidence \in UNKNOWN .. MASTERED]_vars

\* C10: the current card of the session always equals the stored record with
\* its id, and a recordAnswer leaves the stored question and answer of the
\* scored card as they are in the store.
NoSessionDrift ==
    /\ [](getCurrentCard # <<>> =>
            LET topicId == currentSession[1].topicId
                index == FindIndex(storage[topicId], getCurrentCard[1].id)
            IN  /\ index # 0
                /\ storage[topicId][index] = getCurrentCard[1])
    /\ [][\A r \in Qualities, ok \in BOOLEAN :
            RecordAnswer(r, ok) =>
                LET topicId == currentSession[1].topicId
                    index == FindIndex(storage[topicId], Scored.id)
                IN  index # 0 =>
                        /\ storage'[topicId][index].question =
                               storage[topicId][index].question
                        /\ storage'[topicId][index].answer =
                               storage[topicId][index].answer]_vars

\* C11: write-through.  Immediately after every recordAnswer that returns a
\* result, the stored record with the scored card's id carries the interval,
\* repetitions, stepIndex, easinessFactor, nextReviewDate and confidence
\* computed for that review.
WriteThrough ==
    [][\A r \in Qualities, ok \in BOOLEAN :
          RecordAnswer(r, ok) =>
              LET topicId == currentSession[1].topicId
                  index == FindIndex(storage'[topicId], Scored.id)
                  computed == ScoredCard(Scored, r)
              IN  /\ index # 0
                  /\ \A f \in {"interval", "repetitions", "stepIndex",
                                "easinessFactor", "nextReviewDate", "confidence"} :
                        storage'[topicId][index][f] = computed[f]]_vars

\* C12: when the storage rejects the write, saveFlashcard fails visibly to
\* its caller (it does not return the card as if it had been stored) and the
\* stored collection is unchanged.
SaveFailsVisibly ==
    [][\A q \in Questions, a \in Answers :
          SaveNewCard(StudyTopic, q, a, FALSE) =>
              /\ storage' = storage
              /\ saveFlashcardOutcome(
                     [question |-> q, answer |-> a, source |-> "manual"],
                     nextId, FALSE).threw]_vars

\* C13: when the storage rejects the write made during recordAnswer, the
\* stored record and the session's record of the scored card both keep the
\* values they had before the call.
RejectedScoreLeavesNoTrace ==
    [][\A r \in Qualities :
          RecordAnswer(r, FALSE) =>
              /\ storage' = storage
              /\ ScoredAfter = Scored]_vars

\* C14: saveFlashcard is idempotent.  Submitting again a card that is stored
\* (same id, identical record) leaves the topic's collection with the same
\* cards and the same length.
SaveIsIdempotent ==
    [][\A i \in 1 .. MaxCards, ok \in BOOLEAN :
          SaveFlashcardAgain(StudyTopic, i, ok) =>
              storage'[StudyTopic] = storage[StudyTopic]]_vars

\* C15: no two cards of the same topic have the same id.
UniqueIds ==
    \A t \in Topics : \A i, j \in 1 .. Len(storage[t]) :
        storage[t][i].id = storage[t][j].id => i = j

\* the cards of the topic whose normalized question is that of question
SameQuestion(cards, question) ==
    {i \in 1 .. Len(cards) : Normalized(cards[i].question) = Normalized(question)}

AllStored(n) == [i \in 1 .. n |-> TRUE]

\* C16: after the candidates of a generation run (deduplicated candidates of
\* the pattern extractors, or the cards of an external generator) have been
\* submitted and stored, the topic holds exactly one card for each
\* candidate's normalized question.
OneCardPerQuestion ==
    [][\A c \in CandidateRuns :
          (\/ GenerateWithPatterns(c, StudyTopic, AllStored(Len(c)))
           \/ GenerateWithAI(c, StudyTopic, AllStored(Len(c)))) =>
              \A k \in 1 .. Len(c) :
                  Cardinality(SameQuestion(storage'[StudyTopic], c[k].question)) = 1]_vars

\* C17: every card importDeck stores has a normalized question that no card
\* before it in the topic has, the cards stored earlier in the same import
\* included.
ImportSkipsDuplicates ==
    [][\A d \in ImportedDecks \cup ExportedDecks :
          \A oks \in [1 .. Len(d) -> BOOLEAN] :
             ImportDeck(d, StudyTopic, oks) =>
                 \A j \in Len(storage[StudyTopic]) + 1 .. Len(storage'[StudyTopic]) :
                     SameQuestion(SubSeq(storage'[StudyTopic], 1, j - 1),
                                  storage'[StudyTopic][j].question) = {}]_vars

\* C18: getFlashcards, getDueCards and startStudySession never throw,
\* whatever the stored item is, and treat a topic of an absent or corrupted
\* item as an empty deck.
ReadsTolerateCorruption ==
    \A t \in Topics :
        /\ ~getFlashcardsOf(storage, t).threw
        /\ ~getDueCardsOf(storage, t).threw
        /\ \A m \in Modes : ~startStudySessionOf(storage, t, m).threw
        /\ storage \notin WellFormedItems =>
              /\ getFlashcardsOf(storage, t) = Returned(JArray(<<>>))
              /\ getDueCardsOf(storage, t) = Returned(JArray(<<>>))
              /\ \A m \in Modes : startStudySessionOf(storage, t, m) = Returned(<<>>)

\* the deck is cards in ascending order of nextReviewDate, cards of the same
\* date in the order they have in cards (the ids in cards are distinct)
OrderedByDate(deck, cards) ==
    /\ Len(deck) = Len(cards)
    /\ \A i \in 1 .. Len(cards) : \E k \in 1 .. Len(deck) : deck[k] = cards[i]
    /\ \A k, l \in 1 .. Len(deck) :
          k < l =>
              /\ deck[k].nextReviewDate <= deck[l].nextReviewDate
              /\ deck[k].nextReviewDate = deck[l].nextReviewDate =>
                    FindIndex(cards, deck[k].id) < FindIndex(cards, deck[l].id)

SessionCards(mode) ==
    IF mode = "due" THEN getDueCards(StudyTopic) ELSE getFlashcards(StudyTopic)

\* C19 as stated: when startStudySession is called without options.shuffle,
\* the deck is in ascending order of nextReviewDate, ties in store order.
OrderedUnlessRequested ==
    [][\A m \in Modes :
          StartStudySession(StudyTopic, m, FALSE) =>
              OrderedByDate(currentSession'[1].cards, SessionCards(m))]_vars

\* C19 as amended: when startStudySession is called without options.shuffle
\* and the setting shuffleCards is off, the deck is in ascending order of
\* nextReviewDate, ties in store order; in every case the deck is a
\* permutation of that ordered list.
OrderedUnlessShuffleIsOn ==
    [][\A m \in Modes, sh \in BOOLEAN :
          StartStudySession(StudyTopic, m, sh) =>
              LET deck == currentSession'[1].cards
              IN  /\ (~sh /\ ~getSettings.shuffleCards) =>
                        OrderedByDate(deck, SessionCards(m))
                  /\ Len(deck) = Len(SessionCards(m))
                  /\ \A i \in 1 .. Len(deck) :
                        \E k \in 1 .. Len(deck) : deck[k] = SessionCards(m)[i]]_vars

\* C19 witness: with the setting shuffleCards off, a session has just started
\* on a deck of two cards in which the card stored second, due earlier,
\* comes first
OrderedWitness ==
    /\ HasSession
    /\ ~getSettings.shuffleCards
    /\ currentSession[1].currentIndex = 0
    /\ Len(storage[StudyTopic]) = 2
    /\ currentSession[1].cards = <<storage[StudyTopic][2], storage[StudyTopic][1]>>
    /\ storage[StudyTopic][2].nextReviewDate < storage[StudyTopic][1].nextReviewDate

\* C20: the deck startStudySession builds holds, each exactly once, the
\* topic's cards whose nextReviewDate is at or before the start time in mode
\* 'due', and all the topic's cards in mode 'all', shuffled or not.
DeckHoldsExactlyTheCards ==
    [][\A m \in Modes, sh \in BOOLEAN :
          StartStudySession(StudyTopic, m, sh) =>
              LET deck == currentSession'[1].cards
                  cards == storage[StudyTopic]
                  wanted == {i \in 1 .. Len(cards) :
                                m = "due" => cards[i].nextReviewDate <= now}
              IN  /\ Len(deck) = Cardinality(wanted)
                  /\ \A i \in wanted :
                        Cardinality({k \in 1 .. Len(deck) : deck[k] = cards[i]}) = 1
                  /\ \A k \in 1 .. Len(deck) : \E i \in wanted : deck[k] = cards[i]]_vars

\* C20 witness: a session in which the deck is the one card that is due of
\* the two cards of the topic
DueDeckWitness ==
    /\ HasSession
    /\ currentSession[1].currentIndex = 0
    /\ Len(storage[StudyTopic]) = 2
    /\ storage[StudyTopic][1].nextReviewDate > now
    /\ storage[StudyTopic][2].nextReviewDate <= now
    /\ currentSession[1].cards = <<storage[StudyTopic][2]>>

\* C21: when the deck is empty, startStudySession leaves no session active,
\* whatever session there was before the call.
EmptyStartLeavesNoSession ==
    \A t \in Topics, m \in Modes, sh \in BOOLEAN :
        (IF m = "due" THEN getDueCards(t) ELSE getFlashcards(t)) = <<>> =>
            SessionsAfterStart(t, m, sh) = {<<>>}

\* C22: skipCard, while there is a current card, moves the cursor on by one
\* and hides the answer, so that the next card is current or, at the end of
\* the deck, none is; it leaves every card of the deck, the store and the
\* counters correct and review unchanged.
SkipLeavesCardAlone ==
    [][(SkipCard /\ getCurrentCard # <<>>) =>
          LET session == currentSession[1]
              after == currentSession'[1]
          IN  /\ after.currentIndex = session.currentIndex + 1
              /\ ~after.isFlipped
              /\ after.cards = session.cards
              /\ after.correct = session.correct
              /\ after.review = session.review
              /\ storage' = storage
              /\ after.currentIndex = Len(session.cards) => getCurrentCard' = <<>>
              /\ after.currentIndex < Len(session.cards) =>
                    getCurrentCard' = <<session.cards[session.currentIndex + 2]>>]_vars

\* C22 witness: in a deck of two cards the revealed first card has been
\* skipped: the second card is current, nothing is counted, and the first
\* card is as it was stored
SkipWitness ==
    /\ HasSession
    /\ Len(currentSession[1].cards) = 2
    /\ currentSession[1].currentIndex = 1
    /\ currentSession[1].correct = 0
    /\ currentSession[1].review = 0
    /\ ~currentSession[1].isFlipped
    /\ currentSession[1].cards[1].reviewCount = 0
    /\ \E i \in 1 .. Len(storage[StudyTopic]) :
          storage[StudyTopic][i] = currentSession[1].cards[1]

\* C23: endSession returns the final statistics of the session (total,
\* correct, lapses - the counter review - and elapsed) and discards the
\* session: afterwards there is no current card and there are no statistics.
EndReturnsFinalStatistics ==
    [][EndSession =>
          /\ endSessionOutcome # <<>>
          /\ {"total", "correct", "review", "elapsed"} \subseteq DOMAIN endSessionOutcome[1]
          /\ endSessionOutcome[1].total = Len(currentSession[1].cards)
          /\ endSessionOutcome[1].correct = currentSession[1].correct
          /\ endSessionOutcome[1].review = currentSession[1].review
          /\ ~HasSession'
          /\ getCurrentCard' = <<>>
          /\ getSessionStats' = <<>>
          /\ endSessionOutcome' = <<>>]_vars

\* C24: flipCard toggles isFlipped - it reveals a hidden answer and hides a
\* revealed one - and changes neither the cursor, the counters, the deck and
\* its cards, nor the store.
FlipIsAToggle ==
    [][FlipCard =>
          LET session == currentSession[1]
              after == currentSession'[1]
          IN  /\ after.isFlipped = ~session.isFlipped
              /\ after.currentIndex = session.currentIndex
              /\ after.correct = session.correct
              /\ after.review = session.review
              /\ after.cards = session.cards
              /\ after.topicId = session.topicId
              /\ storage' = storage]_vars

\* C24 witness: the answer of the second card of a deck is revealed, after
\* the first card was scored
FlipWitness ==
    /\ HasSession
    /\ currentSession[1].isFlipped
    /\ currentSession[1].currentIndex = 1
    /\ currentSession[1].correct = 1
    /\ Len(currentSession[1].cards) = 2

\* C25: a review with quality >= 3 never moves the card's nextReviewDate to
\* an earlier time than it had before the review.
PassNeverMovesDueDateBack ==
    [][\A r \in 3 .. 5, ok \in BOOLEAN :
          RecordAnswer(r, ok) =>
              ScoredAfter.nextReviewDate >= Scored.nextReviewDate]_vars

\* C26: saveSettings leaves every stored card, and every card of the
\* session, unchanged; the new configuration is the one later reviews read.
SettingsLeaveCardsAlone ==
    [][\A s \in SchedulerSettings :
          SaveSettings(s) =>
              /\ storage' = storage
              /\ currentSession' = currentSession
              /\ getSettings' = Merge(defaultSettings, s)]_vars

\* C26 witness: the card was reviewed once under the default ladder (it is at
\* step 1, due 1440 minutes after the review) and another configuration,
\* under which no review gives that, was saved afterwards
SettingsWitness ==
    /\ settingsItem # <<>>
    /\ settingsItem[1].learningSteps # <<10, 1440>>
    /\ Len(storage[StudyTopic]) = 1
    /\ storage[StudyTopic][1].reviewCount = 1
    /\ storage[StudyTopic][1].stepIndex = 1
    /\ storage[StudyTopic][1].interval = 1440
    /\ storage[StudyTopic][1].nextReviewDate = storage[StudyTopic][1].lastReviewed + 1440

\* C27: whenever no configuration is stored, getSettings returns the
\* documented defaults: learningSteps [10, 1440], graduatingInterval 6,
\* easyInterval 10, maxInterval 365, newCardInterval 1.
DefaultsWhenNothingStored ==
    settingsItem = <<>> =>
        /\ getSettings.learningSteps = <<10, 1440>>
        /\ getSettings.graduatingInterval = 6
        /\ getSettings.easyInterval = 10
        /\ getSettings.maxInterval = 365
        /\ getSettings.newCardInterval = 1

\* C28: extraction is deterministic.  A preview of the page's markdown that
\* follows another one gives the same candidate list, also for a heading with
\* a comparison or a trigger phrase that has several question templates.
ExtractionIsDeterministic ==
    [][pendingCards # <<>> /\ ShowAutoGenerateModal =>
           pendingCards' = pendingCards]_vars

GraduatedPassMultipliesInterval ==
    [][\A r \in 3 .. 5, ok \in BOOLEAN :
          (RecordAnswer(r, ok) /\ ~Scored.isNew /\ Scored.repetitions >= 1) =>
              LET easinessFactor ==
                      Max(MinEasiness, Scored.easinessFactor + EasinessDelta(r))
                  multiplier ==
                      easinessFactor * (IF r = 5 THEN 13 ELSE IF r = 3 THEN 12 ELSE 10)
                  interval ==
                      Min(RoundedDays(Scored.interval, multiplier),
                          getSettings.maxInterval) * MinutesPerDay
              IN  /\ ScoredAfter.repetitions = Scored.repetitions + 1
                  /\ ScoredAfter.easinessFactor = easinessFactor
                  /\ ScoredAfter.interval = interval
                  /\ ScoredAfter.nextReviewDate = now + interval]_vars

\* C31: in every session state 0 <= currentIndex <= deck length, under any
\* sequence of flipCard, skipCard and recordAnswer, so that getSessionStats
\* never reports remaining < 0, percentComplete > 100 or correct + review
\* above total.
CursorWithinDeck ==
    HasSession =>
        /\ currentSession[1].currentIndex >= 0
        /\ currentSession[1].currentIndex <= Len(currentSession[1].cards)
        /\ getSessionStats[1].remaining >= 0
        /\ getSessionStats[1].percentComplete <= 100
        /\ getSessionStats[1].correct + getSessionStats[1].review
               <= getSessionStats[1].total

\* C32: a session finishes with its deck.  A started session of N cards has
\* a current card and its cursor at 0; each call of recordAnswer or skipCard
\* made before the end moves the cursor by exactly one over the same deck,
\* and flipCard leaves the cursor and the current card alone: so the cursor
\* counts these calls, the session is complete (getCurrentCard returns null)
\* after the N-th of them and is not complete after fewer.
SessionEndsWithTheDeck ==
    [][/\ \A m \in Modes, sh \in BOOLEAN :
             \/ /\ HasSession'
                /\ currentSession'[1].currentIndex = 0
                /\ getCurrentCard' # <<>>
             \/ ~StartStudySession(StudyTopic, m, sh)
       /\ \A r \in Qualities :
             \/ /\ HasSession /\ HasSession'
                /\ LET calls == currentSession[1].currentIndex + 1
                       N == Len(currentSession[1].cards)
                   IN  /\ DeckIds(currentSession'[1]) = DeckIds(currentSession[1])
                       /\ currentSession'[1].currentIndex = calls
                       /\ (getCurrentCard' = <<>>) <=> (calls = N)
             \/ ~(getCurrentCard # <<>> /\ (SkipCard \/ RecordAnswer(r, TRUE)))
       /\ FlipCard => getCurrentCard' = getCurrentCard]_vars

\* C32 witness: a deck of two cards is finished, one card answered and one
\* skipped
FinishedWitness ==
    /\ HasSession
    /\ Len(currentSession[1].cards) = 2
    /\ currentSession[1].currentIndex = 2
    /\ currentSession[1].correct + currentSession[1].review = 1
    /\ getCurrentCard = <<>>

\* C33: importDeck is all-or-nothing on failure.  Whenever it returns false
\* (no card list in the file, or a malformed card met part-way through the
\* list), the topic's stored cards are the same as before the call.
FailedImportStoresNothing ==
    [][\A t \in Topics, f \in ImportedFiles, oks \in [1 .. 2 -> BOOLEAN] :
          (/\ ImportFile(f, t, oks)
           /\ ~importDeck(storage, nextId, f, t, oks).returned) =>
              getFlashcards(t)' = getFlashcards(t)]_vars

\* C34: for a graduated card in the multiplier phase (repetitions >= 2), a
\* review of the same card state with a higher passing quality never gives a
\* shorter interval than one with a lower passing quality:
\* interval(3) <= interval(4) <= interval(5).
HigherQualityNeverShortens ==
    \A t \in Topics :
        \A i \in 1 .. Len(getFlashcards(t)) :
            LET card == getFlashcards(t)[i]
            IN  (~card.isNew /\ card.repetitions >= 2) =>
                    /\ calculateSM2(card, 3).interval <= calculateSM2(card, 4).interval
                    /\ calculateSM2(card, 4).interval <= calculateSM2(card, 5).interval

\* C35: saveFlashcard, updateFlashcard, deleteFlashcard, importDeck and
\* recordAnswer applied to one topic leave the stored cards of every other
\* topic unchanged.
OtherTopicsUntouched ==
    [][\A t \in Topics :
          \/ \A o \in Topics \ {t} : getFlashcards(o)' = getFlashcards(o)
          \/ ~ \/ \E a \in Answers, ok \in BOOLEAN : SaveNewCard(t, <<"q", "1">>, a, ok)
               \/ \E id \in StoredIds(t), ok \in BOOLEAN :
                     UpdateFlashcard(t, id, <<"q", "2">>, "a2", ok)
               \/ \E id \in StoredIds(t), ok \in BOOLEAN : DeleteFlashcard(t, id, ok)
               \/ \E d \in ExportedDecks : ImportDeck(d, t, [i \in 1 .. Len(d) |-> TRUE])
               \/ /\ HasSession
                  /\ currentSession[1].topicId = t
                  /\ \E r \in DeckRatings, ok \in BOOLEAN : RecordAnswer(r, ok)]_vars

\* C35 witness: both topics hold a card, the card of one topic has been
\* reviewed and the card of the other has not
TopicsWitness ==
    \E t \in Topics, o \in Topics :
        /\ t # o
        /\ getFlashcards(t) # <<>> /\ getFlashcards(o) # <<>>
        /\ getFlashcards(t)[1].reviewCount = 1
        /\ getFlashcards(o)[1].reviewCount = 0

LadderKeepsEasiness ==
    [][\A r \in Qualities, ok \in BOOLEAN :
          (/\ getCurrentCard # <<>>
           /\ r < 3 \/ Scored.isNew \/ Scored.repetitions = 0
           /\ RecordAnswer(r, ok)) =>
              /\ ScoredAfter.easinessFactor = Scored.easinessFactor
              /\ ScoredAfter.id = Scored.id
              /\ ScoredAfter.question = Scored.question
              /\ ScoredAfter.answer = Scored.answer
              /\ \A i \in 1 .. Len(getFlashcards(StudyTopic)) :
                    /\ getFlashcards(StudyTopic)'[i].easinessFactor
                          = getFlashcards(StudyTopic)[i].easinessFactor
                    /\ getFlashcards(StudyTopic)'[i].id = getFlashcards(StudyTopic)[i].id
                    /\ getFlashcards(StudyTopic)'[i].question
                          = getFlashcards(StudyTopic)[i].question
                    /\ getFlashcards(StudyTopic)'[i].answer
                          = getFlashcards(StudyTopic)[i].answer]_vars

\* C39 witness: the card has lapsed after a graduated review changed its
\* easinessFactor, and it kept that easinessFactor
LapsedWitness ==
    /\ getFlashcards(StudyTopic)[1].easinessFactor # InitialEasiness
    /\ getFlashcards(StudyTopic)[1].repetitions = 0
    /\ ~getFlashcards(StudyTopic)[1].isNew
    /\ getFlashcards(StudyTopic)[1].reviewCount = MaxScored

\* C37: with includeCodeExamples enabled, a text that holds a closed fenced
\* block whose body is 10 to 1000 characters long gives a card of type
\* 'code' whose answer is that block: the cards previewed for the page's
\* text hold one for each such block.
CodeBlocksBecomeCards ==
    (pendingCards # <<>> /\ getSettings.includeCodeExamples) =>
        \A s \in 1 .. Len(currentMarkdown) :
            (/\ Has(currentMarkdown[s], "fence")
             /\ currentMarkdown[s].fence.closed
             /\ Len(currentMarkdown[s].fence.code) \in 10 .. 1000) =>
                \E i \in 1 .. Len(pendingCards[1]) :
                    /\ pendingCards[1][i].type = "code"
                    /\ pendingCards[1][i].answer
                          = CodeAnswer(currentMarkdown[s].fence.language,
                                       currentMarkdown[s].fence.code)

\* C38: deduplicateCards keeps, for each normalized question (lower case,
\* every character that is no letter or digit removed), exactly the first
\* card of its input and drops the later ones, the kept cards in the order
\* they had; its output never holds two cards with one normalized question,
\* and applying it to its output changes nothing.  Stated of the cards
\* previewed for the page's text, which are deduplicateCards of the valid
\* candidates.
DeduplicationKeepsFirsts ==
    pendingCards # <<>> =>
        \E cards \in FilteredCards(currentMarkdown) :
            LET key(card) == Normalized(card.question)
                firsts == {i \in 1 .. Len(cards) :
                              \A j \in 1 .. i - 1 : key(cards[j]) # key(cards[i])}
                nth(k) == CHOOSE i \in firsts :
                              Cardinality({j \in firsts : j <= i}) = k
                unique == pendingCards[1]
            IN  /\ Len(unique) = Cardinality(firsts)
                /\ \A k \in 1 .. Len(unique) : unique[k] = cards[nth(k)]
                /\ \A k, l \in 1 .. Len(unique) :
                      key(unique[k]) = key(unique[l]) => k = l
                /\ deduplicateCards(unique) = unique

\* C38 witness: of three or more candidates the second was dropped, it has
\* the normalized question of the first; the two cards kept are the first
\* candidate and the third, in this order
DeduplicationWitness ==
    /\ pendingCards # <<>>
    /\ Len(currentMarkdown) >= 3
    /\ Len(pendingCards[1]) = 2
    /\ pendingCards[1][1].answer = currentMarkdown[1].content
    /\ pendingCards[1][2].answer = currentMarkdown[3].content
    /\ \E question \in generateSmartQuestion(currentMarkdown[2].heading) :
          Normalized(question) = Normalized(pendingCards[1][1].question)

====
